---------------------------- MODULE Spec2Model ----------------------------
(***************************************************************************)
(* A model of the BlindAid orchestration core: the speech delivery         *)
(* pipeline (blindaid/core/audio.py), the overlay store, the mode registry  *)
(* and switcher and the frame loop (blindaid/controller.py), and the        *)
(* perception modes (blindaid/modes/...).                                   *)
(*                                                                          *)
(* Time is counted in ticks of half a second (2.0 s = 4 ticks, 2.5 s = 5    *)
(* ticks).  time.time() is read as the variable now, which never decreases. *)
(***************************************************************************)
EXTENDS Integers, Sequences, FiniteSets, TLC

VARIABLES
    now,              \* time.time(), in ticks
    \* ---- AudioPlayer (core/audio.py)
    queue,            \* self.queue: messages (ordinals >= 1) and the sentinel
    worker_pc,        \* the worker thread: "wait", "play", "hung", "exited"
    playing,          \* the message the worker is synthesizing, 0 when none
    n_playing,        \* number of playbacks in progress
    played,           \* messages whose synthesis has started, in order
    accepted,         \* messages speak() put on the queue, in order
    offered,          \* number of non-empty messages offered so far
    pending,          \* _speak_messages: the messages still to be offered
    last_speak,       \* what the last speak() call did
    shutdown_pc,      \* shutdown(): "idle", "put", "join", "quit", "done"
    pygame_initialized, \* self._pygame_initialized
    mixer_open,       \* pygame.mixer is initialised
    \* ---- overlay store (controller.py)
    overlays,         \* self.overlays: OverlayMessage records, oldest first
    added,            \* every overlay ever added: [t, d], indexed by its id
    last_active,      \* the result of _active_overlays at this instant
    \* ---- one mode instance driven through its lifecycle (modes/...)
    mut,              \* the mode driven: "guardian", "reading" or "people"
    entered,          \* on_enter was called more recently than on_exit
    guardian,         \* the fields of the GuardianMode instance
    reading,          \* the fields of the ReadingMode instance
    people,           \* the fields of the PeopleMode instance
    last_frame,       \* what the last process_frame call returned
    emit_times,       \* the times of the last two frames that returned speech
    ocr_hist,         \* texts of the last two OCR-processed frames since on_enter
    seen,             \* names the recognizer returned since on_enter
    session,          \* this people session: [enter, speeches, summary, ...]
    near_run,         \* the current run of depth-processed near-obstacle frames
    depth_runs,       \* the frame counts, since on_enter, at which depth was run
    face_speech,      \* the announcer of recognized faces that is driven
    warned,           \* the speech messages that are warnings of the GuardianMode
    \* ---- ModeController (controller.py): main thread and preloader thread
    initial_mode,     \* the initial_mode argument of the constructor
    current_mode_key, \* self.current_mode_key
    previous_mode_key, \* self.previous_mode_key
    mode_instances,   \* self._mode_instances: key -> instance, Absent when no entry
    factory_calls,    \* how often each key's factory was invoked
    returned,         \* the instances the _get_mode(k) calls have returned
    main_pc,          \* where the main thread is in run()
    get,              \* per thread: the _get_mode call it is in
    sw,               \* the _switch_mode call in progress
    switches,         \* _switch_mode calls that went past the early returns
    pre_pc,           \* where the preloader thread is
    pre_i,            \* the preloader's index into preload_order
    preload_running,  \* self._preload_running
    visual_assistant, \* self.visual_assistant is set
    people_done,      \* the PeopleMode instances whose finished flag is set
    last_switch,      \* what the _switch_mode call of this iteration did
    before_people,    \* the key that was current before the last entry into people mode
    iter_log,         \* this iteration: was the scan finished at its start, which mode processed the frame
    cleanup,          \* the finally block of run(): steps done, dict size at the iterator, keys visited
    ocr,              \* ReadingMode.ocr: 0 (None) or 1 (an engine)
    ocr_failed,       \* ReadingMode._ocr_failed
    face_detector,    \* PeopleMode.face_detector: 0 (None) or 1 (a detector)
    faces_loaded,     \* PeopleMode._loaded
    known_faces,      \* passes of _load_known_faces appended to the known-face lists
    depth_model,      \* DepthAnalyzer.model: 0 (None) or 1 (a model)
    loader,           \* per thread: the lazy loader it is inside
    load_log,            \* per heavy object: constructions attempted, failed, retried, refused
    pre_log,          \* what the preloader attempted, in order, with the outcome
    oneshot,          \* the one-shot request of this iteration, and the requests so far
    spawned,          \* the calls of _start_background_preload and the workers they started
    entered_instances \* the instances, with their keys, entered and not exited since

audioVars == <<queue, worker_pc, playing, n_playing, played, accepted, offered,
               pending, last_speak, shutdown_pc, pygame_initialized, mixer_open>>

overlayVars == <<overlays, added, last_active>>

modeVars == <<mut, entered, guardian, reading, people, last_frame, emit_times,
              ocr_hist, seen, session, near_run, depth_runs, face_speech, warned>>

ctrlVars == <<initial_mode, current_mode_key, previous_mode_key,
              mode_instances, factory_calls, returned, main_pc, get, sw, switches,
              pre_pc, pre_i, preload_running, visual_assistant, people_done,
              last_switch,
              before_people, iter_log,
              cleanup,
              ocr, ocr_failed, face_detector, faces_loaded, known_faces, depth_model, loader, load_log, pre_log,
              oneshot,
              spawned,
              entered_instances>>

vars == <<now, audioVars, overlayVars, modeVars, ctrlVars>>

(***************************************************************************)
(* Bounds of the model and program constants.                              *)
(***************************************************************************)
T0 == 11              \* the clock's reading at construction
Horizon == 12         \* ticks the clock may advance
MaxOffered == 12      \* non-empty messages offered to the speech pipeline
GuardianHorizon == 6  \* ticks the clock may advance while a GuardianMode is driven
MaxAdded == 2         \* overlays added to the overlay store
MaxFrames == 30       \* frames a GuardianMode processes between two on_enter
MaxReadingFrames == 10 \* frames a ReadingMode processes between two on_enter
MaxStable == 3        \* largest stable_text_count followed
MaxSwitches == 1      \* mode switches after which the hotkeys ask for no further one

QueueMaxSize == 10    \* Queue(maxsize=10)

STOP == -1            \* the poison pill, None in the source

warning_cooldown == 4          \* GuardianMode.warning_cooldown = 2.0 s
idle_timeout == 6              \* GuardianMode.idle_timeout = 3.0 s
idle_process_interval == 10    \* GuardianMode.idle_process_interval
active_process_interval == 30  \* GuardianMode.active_process_interval
OCR_FRAME_SKIP == 4            \* config.OCR_FRAME_SKIP
OCR_COOLDOWN_SECONDS == 10     \* config.OCR_COOLDOWN_SECONDS = 5 s
OCR_CONFIDENCE_THRESHOLD == 90 \* config.OCR_CONFIDENCE_THRESHOLD = 0.9, in percent
duration == 10                 \* PeopleMode.duration = 5.0 s

Absent == -1          \* key not in self._mode_instances
NoneInst == 0         \* None, what the "sitting" factory returns

MaxTime == T0 + Horizon

(***************************************************************************)
(* ModeController.__init__                                                  *)
(***************************************************************************)
\* The keys of self._mode_factories.
Keys == {"sitting", "guardian", "reading", "people"}

mode_labels == [sitting |-> "Sitting (Idle)", guardian |-> "Walking",
                reading |-> "Reading", people |-> "People"]

NoArg == "<None>"     \* initial_mode=None

\* The initial_mode arguments followed.  "scene" names a mode class of the
\* package that has no factory in the registry.
InitialModes == {NoArg, "Guardian", "READING", "people", "scene"}

\* str.lower() on the strings that occur.
Lower(s) ==
    CASE s = "Guardian" -> "guardian"
      [] s = "READING" -> "reading"
      [] OTHER -> s

Registered(key) == key \in Keys

\* requested_mode of the constructor: (initial_mode or "sitting").lower(),
\* replaced by "sitting" when it has no factory.
RequestedModeNoFallback(initial) ==
    Lower(IF initial = NoArg \/ initial = "" THEN "sitting" ELSE initial)

RequestedMode(initial) ==
    LET requested_mode ==
            Lower(IF initial = NoArg \/ initial = "" THEN "sitting" ELSE initial)
    IN  IF Registered(requested_mode) THEN requested_mode ELSE "sitting"

Threads == {"main", "pre"}

NoCall == [pc |-> "idle", key |-> "", local |-> Absent]

NoSwitch == [target |-> "", cont |-> "", from |-> "", hooks |-> <<>>,
             n_overlays |-> 0]

\* No _switch_mode call has ended in this iteration.  Otherwise: the key it
\* was called with, the current key and the length of the overlay store at
\* its entry, the hooks it invoked, and whether an exception left it.
NoLastSwitch == [target |-> "", from |-> "", hooks |-> <<>>, n_overlays |-> 0,
                 escaped |-> FALSE]

\* entered: the instance whose process_frame was called had been given
\* on_enter, and no on_exit since.
NoIter == [auto |-> FALSE, processed |-> "", entered |-> TRUE]

\* The names of the known faces that the recognizer can give.
FaceNames == {"Alice", "Bob"}

\* No time: the name has no entry in the dictionary.
Never == -1

\* SceneMode or FaceRecognitionService after construction: `last` is
\* last_face_speech (SceneMode) or last_spoken (FaceRecognitionService).
\* The other fields note, for each name, the times of its last two
\* announcements, and for the last frame the detections it used, the names
\* it announced and the names that could be announced when it began.
NoFaceSpeech ==
    [audio_enabled |-> TRUE,
     last |-> [n \in FaceNames |-> Never],
     last_detections |-> <<>>,
     prev_ann |-> [n \in FaceNames |-> Never],
     last_ann |-> [n \in FaceNames |-> Never],
     used |-> <<>>, msgs |-> <<>>, due |-> {}]

\* _start_background_preload has not been called.
NoStarts == [calls |-> 0, workers |-> 0]

\* No one-shot request has been handled in this iteration.  Otherwise: which
\* ("caption" or "vqa"), what its collaborators did, the overlays posted and
\* the messages spoken, the collaborator calls made and whether an exception
\* left the handler.
\* speech_listener is self.speech_listener (None or built) and n the number
\* of requests handled so far.
NoOneShot ==
    [kind |-> "", collab |-> "", posted |-> <<>>, spoken |-> <<>>,
     calls |-> <<>>, escaped |-> FALSE, speech_listener |-> FALSE, n |-> 0]

\* At the start of an iteration and of the finally block the request of the
\* iteration before is forgotten.
Forgotten ==
    [NoOneShot EXCEPT !.speech_listener = oneshot.speech_listener,
                      !.n = oneshot.n]

\* The finally block of run() before it starts: no step done, no iterator
\* over the registry.
NoCleanup == [log |-> <<>>, used |-> 0, visited |-> {}]

\* The heavy objects that are built lazily: ReadingMode's OCR engine,
\* PeopleMode's face models, DepthAnalyzer's depth model and the
\* controller's VisualAssistant.
Objs == {"ocr", "faces", "depth", "assistant"}

\* No thread is inside a lazy loader.
NoLoader == [th \in Threads |-> "idle"]

\* Nothing has been attempted: per object the constructions started, those
\* started after a failed one, those that succeeded, the threads whose
\* construction failed, and whether a call found the object missing and
\* did not construct it.
NoLoads == [o \in Objs |-> [attempts |-> 0, retries |-> 0, built |-> 0,
                            failed |-> {}, refused |-> FALSE]]

\* The controller after ModeController(initial_mode=initial), before run().
ControllerNew(initial) ==
    /\ initial_mode = initial
    /\ current_mode_key = RequestedMode(initial)
    /\ previous_mode_key = RequestedMode(initial)
    /\ mode_instances = [k \in Keys |-> Absent]
    /\ factory_calls = [k \in Keys |-> 0]
    /\ returned = [k \in Keys |-> {}]
    /\ main_pc = "start"
    /\ get = [th \in Threads |-> NoCall]
    /\ sw = NoSwitch
    /\ switches = 0
    /\ pre_pc = "off"
    /\ pre_i = 0
    /\ preload_running = FALSE
    /\ visual_assistant = FALSE
    /\ people_done = {}
    /\ last_switch = NoLastSwitch
    /\ before_people = ""
    /\ iter_log = NoIter
    /\ cleanup = NoCleanup
    /\ ocr = 0
    /\ ocr_failed = FALSE
    /\ face_detector = 0
    /\ faces_loaded = FALSE
    /\ known_faces = 0
    /\ depth_model = 0
    /\ loader = NoLoader
    /\ load_log = NoLoads
    /\ pre_log = <<>>
    /\ oneshot = NoOneShot
    /\ spawned = NoStarts
    /\ entered_instances = {}

(***************************************************************************)
(* queue.Queue                                                              *)
(***************************************************************************)
\* Queue.put(item, block): the new queue and how the call ended:
\* "ok", "full" (queue.Full is raised) or "blocked" (the caller waits).
QueuePut(q, item, block) ==
    IF Len(q) < QueueMaxSize
    THEN [q |-> Append(q, item), status |-> "ok"]
    ELSE [q |-> q, status |-> IF block THEN "blocked" ELSE "full"]

\* Queue.get(): the item taken, FIFO.
QueueGetLifo(q) == [item |-> q[Len(q)], q |-> SubSeq(q, 1, Len(q) - 1)]

QueueGet(q) == [item |-> Head(q), q |-> Tail(q)]

(***************************************************************************)
(* AudioPlayer.speak: put_nowait inside try/except Exception.               *)
(***************************************************************************)
NoSpeak == [msg |-> 0, status |-> "none", before |-> <<>>, after |-> <<>>]

\* The outcome of speak(message) on queue q: the queue afterwards and the
\* status seen by the caller: "queued", "dropped" (queue.Full caught and
\* logged), "blocked" or "raised".
SpeakOutcomeBlockingPut(q, message) ==
    LET r == QueuePut(q, message, TRUE)
    IN  [q |-> r.q,
         status |-> CASE r.status = "ok" -> "queued"
                      [] r.status = "full" -> "dropped"
                      [] OTHER -> "blocked"]

SpeakOutcome(q, message) ==
    LET r == QueuePut(q, message, FALSE)
    IN  [q |-> r.q,
         status |-> CASE r.status = "ok" -> "queued"
                      [] r.status = "full" -> "dropped"
                      [] OTHER -> "blocked"]

\* The number of non-empty messages among the first i of a list.
RECURSIVE CountTrue(_, _)
CountTrue(shape, i) ==
    IF i = 0 THEN 0
    ELSE CountTrue(shape, i - 1) + (IF shape[i] THEN 1 ELSE 0)

\* _speak_messages(messages) with an AudioPlayer: the caller starts offering
\* the messages of the list one by one.  A non-empty message is named by its
\* ordinal among the non-empty messages offered; 0 stands for an empty string.
SpeakMessages(shape) ==
    /\ pending = <<>>
    /\ offered + CountTrue(shape, Len(shape)) <= MaxOffered
    /\ pending' = [i \in 1..Len(shape) |->
                      IF shape[i] THEN offered + CountTrue(shape, i) ELSE 0]
    /\ offered' = offered + CountTrue(shape, Len(shape))
    /\ UNCHANGED <<now, queue, worker_pc, playing, n_playing, played, accepted,
                   last_speak, shutdown_pc, pygame_initialized, mixer_open>>

\* One turn of the loop of _speak_messages: an empty message is skipped, any
\* other is handed to AudioPlayer.speak.
SpeakNext ==
    /\ pending # <<>>
    /\ LET message == Head(pending)
           r == SpeakOutcome(queue, message)
       IN  /\ pending' = Tail(pending)
           /\ IF message = 0
              THEN UNCHANGED <<queue, accepted, last_speak>>
              ELSE /\ queue' = r.q
                   /\ accepted' = IF r.status = "queued"
                                  THEN Append(accepted, message) ELSE accepted
                   /\ last_speak' = [msg |-> message, status |-> r.status,
                                     before |-> queue, after |-> r.q]
    /\ UNCHANGED <<now, worker_pc, playing, n_playing, played, offered,
                   shutdown_pc, pygame_initialized, mixer_open>>

(***************************************************************************)
(* AudioPlayer._worker                                                      *)
(***************************************************************************)
\* queue.get(timeout=0.5) returns an item: the sentinel ends the loop, a
\* message starts its synthesis (_ensure_pygame, then _speak_gtts).  An empty
\* queue raises Empty and the loop goes round, which changes nothing.
\* shutdown_event is never set by this program, so the loop condition holds.
\* `if message is None`: the item is the sentinel of shutdown.
IsPoisonPillNever(item) == FALSE

IsPoisonPill(item) == item = STOP

WorkerGet ==
    /\ worker_pc = "wait"
    /\ queue # <<>>
    /\ LET g == QueueGet(queue)
       IN  /\ queue' = g.q
           /\ IF IsPoisonPill(g.item)
              THEN /\ worker_pc' = "exited"
                   /\ UNCHANGED <<playing, n_playing, played>>
              ELSE /\ worker_pc' = "play"
                   /\ playing' = g.item
                   /\ n_playing' = n_playing + 1
                   /\ played' = Append(played, g.item)
    /\ UNCHANGED <<now, accepted, offered, pending, last_speak, shutdown_pc,
                   pygame_initialized, mixer_open>>

\* How the synthesis of a message can end: it played to its end;
\* _ensure_pygame raised, which the except clause of the worker's loop logs;
\* or the backend raised after the mixer was initialised, which _speak_gtts
\* logs itself.
PlayOutcomes == {"ok", "mixer_failed", "synthesis_failed"}

\* Where the worker is after a failed synthesis: the exception is caught
\* inside the while loop, which goes round to queue.get.
AfterFailureNoExcept == "exited"

AfterFailure == "wait"

\* The synthesis of the current message ends.  Whatever the outcome, the
\* message is not put back on the queue.
WorkerPlayEnd(outcome) ==
    /\ worker_pc = "play"
    /\ worker_pc' = IF outcome = "ok" THEN "wait" ELSE AfterFailure
    /\ playing' = 0
    /\ n_playing' = n_playing - 1
    /\ IF outcome = "mixer_failed"
       THEN UNCHANGED <<pygame_initialized, mixer_open>>
       ELSE /\ pygame_initialized' = TRUE
            /\ mixer_open' = TRUE
    /\ UNCHANGED <<now, queue, played, accepted, offered, pending, last_speak,
                   shutdown_pc>>

\* The synthesis backend never returns (gTTS.save waits on the network with
\* no timeout): the worker stays inside _speak_gtts.
WorkerHang ==
    /\ worker_pc = "play"
    /\ worker_pc' = "hung"
    /\ UNCHANGED <<now, queue, playing, n_playing, played, accepted, offered,
                   pending, last_speak, shutdown_pc, pygame_initialized,
                   mixer_open>>

(***************************************************************************)
(* AudioPlayer.shutdown                                                     *)
(***************************************************************************)
ShutdownCall ==
    /\ shutdown_pc = "idle"
    /\ pending = <<>>
    /\ shutdown_pc' = "put"
    /\ UNCHANGED <<now, queue, worker_pc, playing, n_playing, played, accepted,
                   offered, pending, last_speak, pygame_initialized, mixer_open>>

\* self.queue.put(None): a blocking put with no timeout.  It returns once the
\* sentinel is on the queue; while the queue is full the caller waits.
ShutdownPut ==
    /\ shutdown_pc = "put"
    /\ LET r == QueuePut(queue, STOP, TRUE)
       IN  /\ r.status = "ok"
           /\ queue' = r.q
    /\ shutdown_pc' = "join"
    /\ UNCHANGED <<now, worker_pc, playing, n_playing, played, accepted,
                   offered, pending, last_speak, pygame_initialized, mixer_open>>

\* self.worker_thread.join(timeout=2.0): returns when the worker has exited
\* or when the timeout has run out, whichever comes first.
ShutdownJoin ==
    /\ shutdown_pc = "join"
    /\ shutdown_pc' = "quit"
    /\ UNCHANGED <<now, queue, worker_pc, playing, n_playing, played, accepted,
                   offered, pending, last_speak, pygame_initialized, mixer_open>>

\* pygame.mixer.quit() when the mixer was used.
ShutdownQuit ==
    /\ shutdown_pc = "quit"
    /\ shutdown_pc' = "done"
    /\ mixer_open' = IF pygame_initialized THEN FALSE ELSE mixer_open
    /\ UNCHANGED <<now, queue, worker_pc, playing, n_playing, played, accepted,
                   offered, pending, last_speak, pygame_initialized>>

(***************************************************************************)
(* The speech pipeline on its own: a producer, the worker and shutdown.     *)
(***************************************************************************)
AudioInit ==
    /\ queue = <<>>
    /\ worker_pc = "wait"
    /\ playing = 0
    /\ n_playing = 0
    /\ played = <<>>
    /\ accepted = <<>>
    /\ offered = 0
    /\ pending = <<>>
    /\ last_speak = NoSpeak
    /\ shutdown_pc = "idle"
    /\ pygame_initialized = FALSE
    /\ mixer_open = FALSE

MessageShapes == {<<TRUE>>, <<FALSE, TRUE>>, <<TRUE, TRUE>>}

InitAudio ==
    /\ now = T0
    /\ AudioInit
    /\ overlays = <<>>
    /\ added = <<>>
    /\ last_active = [valid |-> FALSE, ids |-> <<>>, messages |-> <<>>]
    /\ mut = "none"
    /\ entered = FALSE
    /\ guardian = 0
    /\ reading = 0
    /\ people = 0
    /\ last_frame = [mode |-> "none", ran |-> FALSE, raised |-> FALSE,
                     near |-> FALSE, elapsed |-> FALSE, info |-> <<>>,
                     speech |-> <<>>]
    /\ emit_times = <<>>
    /\ ocr_hist = <<>>
    /\ seen = {}
    /\ session = 0
    /\ near_run = 0
    /\ depth_runs = {}
    /\ face_speech = NoFaceSpeech
    /\ warned = {}
    /\ ControllerNew(NoArg)

AudioStep ==
    \/ \E shape \in MessageShapes : SpeakMessages(shape)
    \/ SpeakNext
    \/ WorkerGet
    \/ \E outcome \in PlayOutcomes : WorkerPlayEnd(outcome)
    \/ WorkerHang
    \/ ShutdownCall
    \/ ShutdownPut
    \/ ShutdownJoin
    \/ ShutdownQuit

NextAudio == AudioStep /\ UNCHANGED <<overlayVars, modeVars, ctrlVars>>

SpecAudio == InitAudio /\ [][NextAudio]_vars

(***************************************************************************)
(* The overlay store: ModeController._add_overlay and _active_overlays.     *)
(***************************************************************************)
NoActive == [valid |-> FALSE, ids |-> <<>>, messages |-> <<>>]

\* _add_overlay(text, duration=d) at time t: the store with the new entry.
\* id names the entry in the model only.
AddOverlayDefaultDuration(ovs, text, d, t, id) ==
    Append(ovs, [text |-> text, expires_at |-> t + 8, id |-> id])

AddOverlay(ovs, text, d, t, id) ==
    Append(ovs, [text |-> text, expires_at |-> t + d, id |-> id])

\* _active_overlays() at time t: the entries kept in the store and the texts
\* returned, both in insertion order.
ActiveOverlaysAtExpiry(ovs, t) ==
    LET Alive(o) == o.expires_at >= t
        active == SelectSeq(ovs, Alive)
    IN  [overlays |-> active,
         messages |-> [i \in 1..Len(active) |-> active[i].text],
         ids |-> [i \in 1..Len(active) |-> active[i].id]]

ActiveOverlays(ovs, t) ==
    LET Alive(o) == o.expires_at > t
        active == SelectSeq(ovs, Alive)
    IN  [overlays |-> active,
         messages |-> [i \in 1..Len(active) |-> active[i].text],
         ids |-> [i \in 1..Len(active) |-> active[i].id]]

OverlayInit ==
    /\ overlays = <<>>
    /\ added = <<>>
    /\ last_active = NoActive

\* A call of _add_overlay.
OverlayAdd(text, d) ==
    /\ Len(added) < MaxAdded
    /\ overlays' = AddOverlay(overlays, text, d, now, Len(added) + 1)
    /\ added' = Append(added, [t |-> now, d |-> d])
    /\ last_active' = NoActive
    /\ UNCHANGED <<now, audioVars, ctrlVars, modeVars>>

\* A call of _active_overlays.
OverlayQuery ==
    /\ LET r == ActiveOverlays(overlays, now)
       IN  /\ overlays' = r.overlays
           /\ last_active' = [valid |-> TRUE, ids |-> r.ids,
                              messages |-> r.messages]
    /\ UNCHANGED <<now, added, audioVars, ctrlVars, modeVars>>

\* Time passes.
OverlayTick ==
    /\ now < MaxTime
    /\ now' = now + 1
    /\ last_active' = NoActive
    /\ UNCHANGED <<overlays, added, audioVars, ctrlVars, modeVars>>

OverlayTexts == {"Switched to Reading mode", "TTS Test"}

\* The durations the controller passes: 2.0 s and 2.5 s.
OverlayDurations == {4, 5}

InitOverlay ==
    /\ now = T0
    /\ AudioInit
    /\ OverlayInit
    /\ mut = "none"
    /\ entered = FALSE
    /\ guardian = 0
    /\ reading = 0
    /\ people = 0
    /\ last_frame = [mode |-> "none", ran |-> FALSE, raised |-> FALSE,
                     near |-> FALSE, elapsed |-> FALSE, info |-> <<>>,
                     speech |-> <<>>]
    /\ emit_times = <<>>
    /\ ocr_hist = <<>>
    /\ seen = {}
    /\ session = 0
    /\ near_run = 0
    /\ depth_runs = {}
    /\ face_speech = NoFaceSpeech
    /\ warned = {}
    /\ ControllerNew(NoArg)

NextOverlay ==
    \/ \E text \in OverlayTexts, d \in OverlayDurations : OverlayAdd(text, d)
    \/ OverlayQuery
    \/ OverlayTick

SpecOverlay == InitOverlay /\ [][NextOverlay]_vars


(***************************************************************************)
(* A mode instance driven through on_enter, process_frame and on_exit.      *)
(***************************************************************************)
NoFrame == [mode |-> "none", ran |-> FALSE, raised |-> FALSE, near |-> FALSE,
            elapsed |-> FALSE, info |-> <<>>, speech |-> <<>>]

\* The times of the last two emissions, after a frame at time t that
\* returned the speech list speech.
NoteEmission(times, speech, t) ==
    IF speech = <<>> THEN times
    ELSE IF times = <<>> THEN <<t>>
    ELSE <<times[Len(times)], t>>

\* Whether, at time t, more than cooldown has passed since the last frame
\* that returned speech (or none has returned speech yet).
CooldownElapsed(times, t, cooldown) ==
    times = <<>> \/ t - times[Len(times)] > cooldown

\* The number of depth-processed frames that showed a near obstacle, counted
\* up to 5, since and including the last one that returned a warning.
NoteRun(run, ran, depth, speech) ==
    IF ~(ran /\ depth = "near") THEN run
    ELSE IF speech # <<>> THEN 1
    ELSE IF run = 0 \/ run = 5 THEN run
    ELSE run + 1

ModeTick ==
    /\ now < (IF mut = "guardian" THEN T0 + GuardianHorizon ELSE MaxTime)
    /\ now' = now + 1
    /\ UNCHANGED <<audioVars, ctrlVars, overlayVars, modeVars>>

(***************************************************************************)
(* GuardianMode (modes/guardian/guardian_mode.py)                           *)
(***************************************************************************)
STATE_IDLE == "Sitting (Idle)"
STATE_ACTIVE == "Walking (Active)"

\* GuardianMode.__init__ at time t.
GuardianNew(t) ==
    [current_state |-> STATE_IDLE,
     frame_counter |-> 0,
     prev_gray_frame |-> FALSE,      \* None, or a frame was kept
     last_motion_time |-> t,
     last_warning_time |-> 0]

\* _detect_motion: the first frame is only remembered; afterwards the answer
\* is whether more than 1% of the pixels changed (changed).
DetectMotion(g, changed) == g.prev_gray_frame /\ changed

\* The speech of a depth-processed frame at time t whose centre-bottom
\* region is near in more than 10% of its pixels.
GuardianWarningNoCooldown(g, t) == <<"Stop">>

GuardianWarning(g, t) ==
    IF t - g.last_warning_time > warning_cooldown THEN <<"Stop">> ELSE <<>>

\* last_warning_time after a frame at time t that returns speech: it is
\* assigned only where the warning is appended.
WarningTimeEveryFrame(g, speech, t) == t

WarningTime(g, speech, t) == IF speech # <<>> THEN t ELSE g.last_warning_time

\* The interval of depth processing in a state of the mode.
ProcessIntervalFixed(state) == idle_process_interval

ProcessInterval(state) ==
    IF state = STATE_ACTIVE
    THEN active_process_interval ELSE idle_process_interval

\* GuardianMode.process_frame at time t.  changed: what the motion detector
\* sees; depth: what the depth collaborator yields when it is run: "near",
\* "far" or "error" (it raises, which is caught and shown as Depth Error).
GuardianProcessFrame(g, t, changed, depth) ==
    LET is_moving == DetectMotion(g, changed)
        state1 == IF is_moving
                  THEN STATE_ACTIVE
                  ELSE IF g.current_state = STATE_ACTIVE
                          /\ t - g.last_motion_time > idle_timeout
                       THEN STATE_IDLE
                       ELSE g.current_state
        counter1 == g.frame_counter + 1
        interval == ProcessInterval(state1)
        should_process == (counter1 % interval) = 0
        speech == IF should_process /\ depth = "near"
                  THEN GuardianWarning(g, t) ELSE <<>>
        g1 == [g EXCEPT !.frame_counter = counter1,
                        !.prev_gray_frame = TRUE,
                        !.current_state = state1,
                        !.last_motion_time = IF is_moving THEN t ELSE @,
                        !.last_warning_time = WarningTime(g, speech, t)]
    IN  [g |-> g1,
         ran |-> should_process,
         info |-> (IF should_process /\ depth = "error"
                   THEN <<"Depth Error">> ELSE <<>>) \o <<state1>>,
         speech |-> speech]

\* GuardianMode.on_enter
GuardianEnter(g) ==
    [g EXCEPT !.frame_counter = 0, !.current_state = STATE_IDLE]

DepthOutcomes == {"near", "far", "error"}

GuardianOnEnter ==
    /\ mut = "guardian"
    /\ ~entered
    /\ entered' = TRUE
    /\ guardian' = GuardianEnter(guardian)
    /\ depth_runs' = {}
    /\ UNCHANGED <<now, audioVars, ctrlVars, overlayVars, mut, reading, people,
                   last_frame, emit_times, ocr_hist, seen, session, near_run, face_speech, warned>>

\* GuardianMode.on_exit only logs.
GuardianOnExit ==
    /\ mut = "guardian"
    /\ entered
    /\ entered' = FALSE
    /\ UNCHANGED <<now, audioVars, ctrlVars, overlayVars, mut, guardian, reading, people,
                   last_frame, emit_times, ocr_hist, seen, session, near_run, depth_runs, face_speech, warned>>

GuardianFrame(changed, depth) ==
    /\ mut = "guardian"
    /\ entered
    /\ guardian.frame_counter < MaxFrames
    /\ LET r == GuardianProcessFrame(guardian, now, changed, depth)
       IN  /\ guardian' = r.g
           /\ last_frame' = [mode |-> "guardian", ran |-> r.ran,
                             raised |-> FALSE,
                             near |-> r.ran /\ depth = "near",
                             elapsed |-> CooldownElapsed(emit_times, now,
                                                         warning_cooldown),
                             info |-> r.info, speech |-> r.speech]
           /\ emit_times' = NoteEmission(emit_times, r.speech, now)
           /\ near_run' = NoteRun(near_run, r.ran, depth, r.speech)
           /\ depth_runs' = IF r.ran
                            THEN depth_runs \cup {r.g.frame_counter}
                            ELSE depth_runs
    /\ UNCHANGED <<now, audioVars, ctrlVars, overlayVars, mut, entered, reading, people,
                   ocr_hist, seen, session, face_speech, warned>>

NextGuardian ==
    \/ GuardianOnEnter
    \/ GuardianOnExit
    \/ \E changed \in BOOLEAN, depth \in DepthOutcomes :
          GuardianFrame(changed, depth)
    \/ ModeTick

(***************************************************************************)
(* ReadingMode (modes/ocr/reading_mode.py)                                  *)
(***************************************************************************)
\* " ".join(texts)
RECURSIVE Join(_)
Join(texts) ==
    IF texts = <<>> THEN ""
    ELSE IF Len(texts) = 1 THEN texts[1]
    ELSE texts[1] \o " " \o Join(Tail(texts))

\* ReadingMode.__init__
ReadingNew(audio_enabled) ==
    [audio_enabled |-> audio_enabled,
     ocr |-> FALSE,                  \* None, or the engine was built
     ocr_failed |-> FALSE,
     frame_count |-> 0,
     last_spoken |-> 0,
     last_text |-> "",
     stable_text_count |-> 0,
     last_text_data |-> <<>>]

\* _parse_result: the (text, score) lines of an OCR result.  The OCRResult
\* form skips lines with an empty text, the legacy list form keeps them.
ParseResult(result) ==
    LET Keep(line) == result.fmt = "legacy" \/ line.text # ""
    IN  SelectSeq(result.lines, Keep)

Texts(data) ==
    LET NonEmpty(line) == line.text # ""
        kept == SelectSeq(data, NonEmpty)
    IN  [i \in 1..Len(kept) |-> kept[i].text]

HighConfTextsNoFilter(data) == [i \in 1..Len(data) |-> data[i].text]

HighConfTexts(data) ==
    LET High(line) == line.score >= OCR_CONFIDENCE_THRESHOLD
        kept == SelectSeq(data, High)
    IN  [i \in 1..Len(kept) |-> kept[i].text]

\* The speak gate of process_frame.
ReadingGateNoCooldown(r, data, stable, t) ==
    /\ r.audio_enabled
    /\ HighConfTexts(data) # <<>>
    /\ stable >= 2

ReadingGate(r, data, stable, t) ==
    /\ r.audio_enabled
    /\ HighConfTexts(data) # <<>>
    /\ stable >= 2
    /\ t - r.last_spoken > OCR_COOLDOWN_SECONDS

\* _run_ocr: whether it raises.  Without an engine it returns None before
\* the recognition call; with one, what engine.ocr raises is not caught.
RunOcrRaisesNoNoneCheck(engine, result) == ~engine \/ result.fmt = "raise"

RunOcrRaises(engine, result) == engine /\ result.fmt = "raise"

\* ReadingMode.process_frame at time t.  loads: whether PaddleOCR can be
\* built if _ensure_ocr tries to; result: what engine.ocr returns when it
\* is called, or OcrRaises when it raises (nothing catches that).
ReadingProcessFrame(r, t, loads, result) ==
    LET count1 == r.frame_count + 1
        should_run == (count1 % (OCR_FRAME_SKIP + 1)) = 0
        tries == should_run /\ ~r.ocr /\ ~r.ocr_failed
        ocr1 == r.ocr \/ (tries /\ loads)
        failed1 == r.ocr_failed \/ (tries /\ ~loads)
        raises == should_run /\ RunOcrRaises(ocr1, result)
        data1 == IF ~should_run THEN r.last_text_data
                 ELSE IF ~ocr1 \/ raises THEN <<>>
                 ELSE ParseResult(result)
        info_text == Join(Texts(data1))
        checked == data1 # <<>> /\ info_text # ""
        stable1 == IF ~checked THEN r.stable_text_count
                   ELSE IF info_text = r.last_text
                        THEN r.stable_text_count + 1 ELSE 0
        speaks == checked /\ ReadingGate(r, data1, stable1, t)
        r1 == [r EXCEPT !.frame_count = count1,
                        !.ocr = ocr1,
                        !.ocr_failed = failed1,
                        !.last_text_data = data1,
                        !.stable_text_count = stable1,
                        !.last_text = IF checked THEN info_text ELSE @,
                        !.last_spoken = IF speaks THEN t ELSE @]
        unavailable1 == IF ~should_run /\ data1 = <<>> /\ failed1
                        THEN <<"OCR engine unavailable - see logs">> ELSE <<>>
        status == IF data1 # <<>>
                  THEN (IF info_text # "" THEN <<info_text>> ELSE <<>>)
                  ELSE IF failed1
                       THEN <<"OCR engine unavailable - check PaddleOCR install">>
                       ELSE <<"No text detected - show printed text to the camera">>
    IN  IF raises
        THEN [r |-> [r EXCEPT !.frame_count = count1, !.ocr = ocr1,
                              !.ocr_failed = failed1],
              ran |-> TRUE, raised |-> TRUE, info |-> <<>>, speech |-> <<>>]
        ELSE [r |-> r1, ran |-> should_run, raised |-> FALSE,
              info |-> unavailable1 \o status,
              speech |-> IF speaks THEN <<Join(HighConfTexts(data1))>>
                         ELSE <<>>]

\* ReadingMode.on_enter
ReadingEnter(r) ==
    [r EXCEPT !.frame_count = 0, !.last_text = "", !.last_text_data = <<>>]

Line(text, score) == [text |-> text, score |-> score]

OcrResults ==
    {[fmt |-> "legacy", lines |-> <<>>],
     [fmt |-> "legacy", lines |-> <<Line("EXIT", 97)>>],
     [fmt |-> "legacy", lines |-> <<Line("EXIT", 97), Line("door", 50)>>],
     [fmt |-> "legacy", lines |-> <<Line("door", 50)>>],
     [fmt |-> "legacy", lines |-> <<Line("", 97), Line("EXIT", 97)>>],
     [fmt |-> "dict", lines |-> <<Line("", 97), Line("EXIT", 97)>>]}

\* engine.ocr raises.
OcrRaises == [fmt |-> "raise", lines |-> <<>>]

\* The texts of the last two OCR-processed frames, after a frame.
NoteOcr(hist, ran, raised, data) ==
    IF ~ran THEN hist
    ELSE IF raised THEN <<>>
    ELSE IF hist = <<>> THEN <<Join(Texts(data))>>
    ELSE <<hist[Len(hist)], Join(Texts(data))>>

ReadingOnEnter ==
    /\ mut = "reading"
    /\ ~entered
    /\ entered' = TRUE
    /\ reading' = ReadingEnter(reading)
    /\ ocr_hist' = <<>>
    /\ UNCHANGED <<now, audioVars, ctrlVars, overlayVars, mut, guardian, people,
                   last_frame, emit_times, seen, session, near_run, depth_runs, face_speech, warned>>

\* ReadingMode.on_exit does nothing.
ReadingOnExit ==
    /\ mut = "reading"
    /\ entered
    /\ entered' = FALSE
    /\ UNCHANGED <<now, audioVars, ctrlVars, overlayVars, mut, guardian, reading, people,
                   last_frame, emit_times, ocr_hist, seen, session, near_run, depth_runs, face_speech, warned>>

ReadingFrame(loads, result) ==
    /\ mut = "reading"
    /\ entered
    /\ reading.frame_count < MaxReadingFrames
    /\ LET f == ReadingProcessFrame(reading, now, loads, result)
       IN  /\ f.r.stable_text_count <= MaxStable
           /\ reading' = f.r
           /\ last_frame' = [mode |-> "reading", ran |-> f.ran,
                             raised |-> f.raised, near |-> FALSE,
                             elapsed |-> CooldownElapsed(emit_times, now,
                                                         OCR_COOLDOWN_SECONDS),
                             info |-> f.info, speech |-> f.speech]
           /\ emit_times' = NoteEmission(emit_times, f.speech, now)
           /\ ocr_hist' = NoteOcr(ocr_hist, f.ran, f.raised,
                                  f.r.last_text_data)
    /\ UNCHANGED <<now, audioVars, ctrlVars, overlayVars, mut, entered, guardian, people,
                   seen, session, near_run, depth_runs, face_speech, warned>>

NextReading ==
    \/ ReadingOnEnter
    \/ ReadingOnExit
    \/ \E loads \in BOOLEAN, result \in OcrResults \cup {OcrRaises} :
          ReadingFrame(loads, result)
    \/ ModeTick

(***************************************************************************)
(* PeopleMode (modes/people/people_mode.py)                                 *)
(***************************************************************************)
\* " and ".join(names)
RECURSIVE JoinAnd(_)
JoinAnd(names) ==
    IF names = <<>> THEN ""
    ELSE IF Len(names) = 1 THEN names[1]
    ELSE names[1] \o " and " \o JoinAnd(Tail(names))

\* PeopleMode.__init__
PeopleNew ==
    [start_time |-> 0,
     finished |-> FALSE,
     loaded |-> FALSE,               \* self._loaded
     face_detector |-> FALSE,        \* None, or the detector was built
     detected_people |-> {}]

\* PeopleMode.on_enter at time t; loads: whether the face models can be
\* loaded if _ensure_loaded tries to.
PeopleEnterKeepsNames(p, t, loads) ==
    [p EXCEPT !.loaded = @ \/ loads,
              !.face_detector = @ \/ (~p.loaded /\ loads),
              !.start_time = t,
              !.finished = FALSE]

PeopleEnter(p, t, loads) ==
    [p EXCEPT !.loaded = @ \/ loads,
              !.face_detector = @ \/ (~p.loaded /\ loads),
              !.start_time = t,
              !.finished = FALSE,
              !.detected_people = {}]

\* The sequences that list every element of a set once.
Orders(S) ==
    {o \in [1..Cardinality(S) -> S] : \A n \in S : \E i \in DOMAIN o : o[i] = n}

KnownNames(names) == names \ {"Unknown"}

\* The summary of a scan; order is the order in which list(set) yields the
\* known names.
Summary(names, order) ==
    IF names = {} THEN "No one found."
    ELSE IF KnownNames(names) = {} THEN "No one recognized."
    ELSE "I see " \o JoinAnd(order)

\* Whether a scan that started at start is over at time t.
ScanOverAtOnce(start, t) == t - start >= 0

ScanOver(start, t) == t - start > duration

\* What process_frame returns once the scan is finished.
ScanCompleteReplyRepeats ==
    [info |-> <<"Scan Complete">>, speech |-> <<"Scan Complete">>]

ScanCompleteReply == [info |-> <<"Scan Complete">>, speech |-> <<>>]

\* PeopleMode.process_frame at time t.  faces: the names the recognizer gives
\* the faces of this frame; raises: the detector or the encoder raises;
\* order: see Summary.
PeopleProcessFrame(p, t, faces, raises, order) ==
    IF p.finished
    THEN [p |-> p, ran |-> FALSE, raised |-> FALSE,
          info |-> ScanCompleteReply.info, speech |-> ScanCompleteReply.speech]
    ELSE IF ScanOver(p.start_time, t)
    THEN [p |-> [p EXCEPT !.finished = TRUE],
          ran |-> FALSE, raised |-> FALSE,
          info |-> <<"Scanning for people...",
                     Summary(p.detected_people, order)>>,
          speech |-> <<Summary(p.detected_people, order)>>]
    ELSE IF ~p.face_detector
    THEN [p |-> p, ran |-> FALSE, raised |-> FALSE,
          info |-> <<"Scanning for people...">>, speech |-> <<>>]
    ELSE IF raises
    THEN [p |-> p, ran |-> TRUE, raised |-> TRUE,
          info |-> <<>>, speech |-> <<>>]
    ELSE [p |-> [p EXCEPT !.detected_people =
                              @ \cup {faces[i] : i \in 1..Len(faces)}],
          ran |-> TRUE, raised |-> FALSE,
          info |-> <<"Scanning for people...">>, speech |-> <<>>]

FaceInputs ==
    {<<>>, <<"Alice">>, <<"Unknown">>, <<"Bob", "Alice", "Alice">>}

\* earlier: the names seen in the sessions before this one.
NoSession ==
    [enter |-> 0, speeches |-> 0, summary |-> "", summary_at |-> 0,
     earlier |-> {}]

PeopleOnEnter(loads) ==
    /\ mut = "people"
    /\ entered' = TRUE
    /\ people' = PeopleEnter(people, now, loads)
    /\ seen' = {}
    /\ session' = [NoSession EXCEPT !.enter = now,
                                    !.earlier = session.earlier \cup seen]
    /\ UNCHANGED <<now, audioVars, ctrlVars, overlayVars, mut, guardian, reading,
                   last_frame, emit_times, ocr_hist, near_run, depth_runs, face_speech, warned>>

\* PeopleMode.on_exit does nothing.
PeopleOnExit ==
    /\ mut = "people"
    /\ entered
    /\ entered' = FALSE
    /\ UNCHANGED <<now, audioVars, ctrlVars, overlayVars, mut, guardian, reading, people,
                   last_frame, emit_times, ocr_hist, seen, session, near_run, depth_runs, face_speech, warned>>

PeopleFrame(faces, raises) ==
    /\ mut = "people"
    /\ entered
    /\ \E order \in Orders(KnownNames(people.detected_people)) :
         LET f == PeopleProcessFrame(people, now, faces, raises, order)
         IN  /\ people' = f.p
             /\ last_frame' = [mode |-> "people", ran |-> f.ran,
                               raised |-> f.raised, near |-> FALSE,
                               elapsed |-> FALSE,
                               info |-> f.info, speech |-> f.speech]
             /\ seen' = IF f.ran /\ ~f.raised
                        THEN seen \cup {faces[i] : i \in 1..Len(faces)}
                        ELSE seen
             /\ session' = IF f.speech = <<>> THEN session
                           ELSE [session EXCEPT
                                   !.speeches = @ + Len(f.speech),
                                   !.summary = f.speech[1],
                                   !.summary_at = now]
    /\ UNCHANGED <<now, audioVars, ctrlVars, overlayVars, mut, entered, guardian,
                   reading, emit_times, ocr_hist, near_run, depth_runs, face_speech, warned>>

NextPeople ==
    \/ \E loads \in BOOLEAN : PeopleOnEnter(loads)
    \/ PeopleOnExit
    \/ \E faces \in FaceInputs, raises \in BOOLEAN : PeopleFrame(faces, raises)
    \/ ModeTick

ModeInit(m) ==
    /\ mut = m
    /\ entered = FALSE
    /\ guardian = GuardianNew(T0)
    /\ \E audio_enabled \in (IF m = "reading" THEN BOOLEAN ELSE {TRUE}) :
          reading = ReadingNew(audio_enabled)
    /\ people = PeopleNew
    /\ last_frame = NoFrame
    /\ emit_times = <<>>
    /\ ocr_hist = <<>>
    /\ seen = {}
    /\ session = NoSession
    /\ near_run = 0
    /\ depth_runs = {}
    /\ \E audio_enabled \in (IF m \in {"scene", "service"} THEN BOOLEAN
                              ELSE {TRUE}) :
          face_speech = [NoFaceSpeech EXCEPT !.audio_enabled = audio_enabled]
    /\ warned = {}

InitGuardian ==
    /\ now = T0
    /\ AudioInit
    /\ OverlayInit
    /\ ModeInit("guardian")
    /\ ControllerNew(NoArg)

SpecGuardian == InitGuardian /\ [][NextGuardian]_vars

InitReading ==
    /\ now = T0
    /\ AudioInit
    /\ OverlayInit
    /\ ModeInit("reading")
    /\ ControllerNew(NoArg)

SpecReading == InitReading /\ [][NextReading]_vars

InitPeople ==
    /\ now = T0
    /\ AudioInit
    /\ OverlayInit
    /\ ModeInit("people")
    /\ ControllerNew(NoArg)

SpecPeople == InitPeople /\ [][NextPeople]_vars

(***************************************************************************)
(* The announcements of recognized faces: SceneMode._build_face_messages    *)
(* and FaceRecognitionService.run.  A tick of the clock is 5 s here.        *)
(***************************************************************************)
FACE_DEBOUNCE_SECONDS == 3     \* config.FACE_DEBOUNCE_SECONDS = 15.0 s

\* Whether a recognized name may be announced at time t.  SceneMode reads
\* last_face_speech.get(label, 0.0); FaceRecognitionService announces a name
\* that is not in last_spoken.
ShouldAnnounceAtDebounce(kind, last, name, t) ==
    IF kind = "scene"
    THEN t - (IF last[name] = Never THEN 0 ELSE last[name])
            >= FACE_DEBOUNCE_SECONDS
    ELSE last[name] = Never \/ t - last[name] >= FACE_DEBOUNCE_SECONDS

ShouldAnnounce(kind, last, name, t) ==
    IF kind = "scene"
    THEN t - (IF last[name] = Never THEN 0 ELSE last[name])
            > FACE_DEBOUNCE_SECONDS
    ELSE last[name] = Never \/ t - last[name] > FACE_DEBOUNCE_SECONDS

\* The loop over the face detections of a frame at time t: the names
\* announced, in order, and the dictionary afterwards.  The readings of the
\* clock within one frame are the same tick.
RECURSIVE Announce(_, _, _, _, _)
Announce(kind, last, dets, t, msgs) ==
    IF dets = <<>> THEN [last |-> last, msgs |-> msgs]
    ELSE LET name == Head(dets)
         IN  IF name # "Unknown" /\ ShouldAnnounce(kind, last, name, t)
             THEN Announce(kind, [last EXCEPT ![name] = t], Tail(dets), t,
                           Append(msgs, name))
             ELSE Announce(kind, last, Tail(dets), t, msgs)

\* The names the recognizer gives the faces of a frame.
FaceDetections ==
    {<<>>, <<"Alice">>, <<"Unknown">>, <<"Alice", "Alice">>,
     <<"Bob", "Alice">>, <<"Unknown", "Bob">>}

\* The times of the last two announcements after the announcements of a
\* frame at time t.
RECURSIVE NoteAnnounced(_, _, _)
NoteAnnounced(f, msgs, t) ==
    IF msgs = <<>> THEN f
    ELSE NoteAnnounced([f EXCEPT !.prev_ann[Head(msgs)] = f.last_ann[Head(msgs)],
                                 !.last_ann[Head(msgs)] = t],
                       Tail(msgs), t)

\* The names that have not been announced within the debounce time before t.
Due(f, t) ==
    {n \in FaceNames :
        f.last_ann[n] = Never \/ t - f.last_ann[n] > FACE_DEBOUNCE_SECONDS}

\* A frame of SceneMode.process_frame (fresh: the detectors run on this
\* frame; otherwise the detections of the last processed frame are used) or
\* a processed frame of FaceRecognitionService.run.  Without audio SceneMode
\* builds the messages and drops them; the service has no player to speak.
FaceFrame(dets, fresh) ==
    /\ mut \in {"scene", "service"}
    /\ mut = "service" => fresh
    /\ LET used == IF fresh THEN dets ELSE face_speech.last_detections
           r == Announce(mut, face_speech.last, used, now, <<>>)
           spoken == IF face_speech.audio_enabled THEN r.msgs ELSE <<>>
           f == [face_speech EXCEPT
                    !.last = r.last,
                    !.last_detections =
                        IF fresh /\ (mut = "scene" \/ dets # <<>>)
                        THEN dets ELSE @,
                    !.used = used,
                    !.msgs = spoken,
                    !.due = Due(face_speech, now)]
       IN  face_speech' = NoteAnnounced(f, spoken, now)
    /\ UNCHANGED <<now, audioVars, ctrlVars, overlayVars, mut, entered,
                   guardian, reading, people, last_frame, emit_times,
                   ocr_hist, seen, session, near_run, depth_runs, warned>>

InitFaces ==
    /\ now = T0
    /\ AudioInit
    /\ OverlayInit
    /\ \E m \in {"scene", "service"} : ModeInit(m)
    /\ ControllerNew(NoArg)

NextFaces ==
    \/ \E dets \in FaceDetections, fresh \in BOOLEAN : FaceFrame(dets, fresh)
    \/ ModeTick

SpecFaces == InitFaces /\ [][NextFaces]_vars

\* GuardianMode or ReadingMode, whichever is driven.
InitModes ==
    /\ now = T0
    /\ AudioInit
    /\ OverlayInit
    /\ \E m \in {"guardian", "reading"} : ModeInit(m)
    /\ ControllerNew(NoArg)

NextModes ==
    \/ GuardianOnEnter
    \/ GuardianOnExit
    \/ \E changed \in BOOLEAN, depth \in DepthOutcomes :
          GuardianFrame(changed, depth)
    \/ ReadingOnEnter
    \/ ReadingOnExit
    \/ \E loads \in BOOLEAN, result \in OcrResults \cup {OcrRaises} :
          ReadingFrame(loads, result)
    \/ ModeTick

SpecModes == InitModes /\ [][NextModes]_vars


(***************************************************************************)
(* ModeController: the mode registry, the switcher, the frame loop of       *)
(* run() on the main thread, and the preloader thread.  The threads share   *)
(* self._mode_instances, which no lock guards, so each access to it in      *)
(* _get_mode is a step of its own.                                          *)
(***************************************************************************)
preload_order == <<"guardian", "reading", "people">>

\* A thread enters _get_mode(key).
Call(th, key) ==
    [get EXCEPT ![th] = [pc |-> "check", key |-> key, local |-> Absent]]

\* _get_mode, lines 152-155: the factory lookup (KeyError for a key without
\* factory) and the test `key not in self._mode_instances`.
GetCheck(th) ==
    /\ get[th].pc = "check"
    /\ get' = [get EXCEPT ![th].pc =
                  IF ~Registered(get[th].key) THEN "raise"
                  ELSE IF mode_instances[get[th].key] = Absent THEN "construct"
                  ELSE "return"]
    /\ UNCHANGED <<now, audioVars, overlayVars, modeVars, initial_mode, entered_instances, spawned, oneshot, ocr, ocr_failed, face_detector, faces_loaded, known_faces, depth_model, loader, load_log, pre_log, cleanup, before_people, iter_log,
                   current_mode_key, previous_mode_key, mode_instances,
                   factory_calls, returned, main_pc, sw, switches, pre_pc, pre_i,
                   preload_running, visual_assistant, people_done, last_switch>>

\* The instance a factory call yields: None for "sitting", otherwise a new
\* object, named by the number of the call.
Factory(key) == IF key = "sitting" THEN NoneInst ELSE factory_calls[key] + 1

\* _get_mode, line 157, right-hand side: factory().
GetConstruct(th) ==
    /\ get[th].pc = "construct"
    /\ get' = [get EXCEPT ![th].pc = "store",
                          ![th].local = Factory(get[th].key)]
    /\ factory_calls' = [factory_calls EXCEPT ![get[th].key] = @ + 1]
    /\ UNCHANGED <<now, audioVars, overlayVars, modeVars, initial_mode, entered_instances, spawned, oneshot, ocr, ocr_failed, face_detector, faces_loaded, known_faces, depth_model, loader, load_log, pre_log, cleanup, before_people, iter_log,
                   current_mode_key, previous_mode_key, mode_instances,
                   returned, main_pc, sw, switches, pre_pc, pre_i,
                   preload_running, visual_assistant, people_done, last_switch>>

\* _get_mode, line 157, the store into self._mode_instances[key].
GetStore(th) ==
    /\ get[th].pc = "store"
    /\ mode_instances' = [mode_instances EXCEPT ![get[th].key] = get[th].local]
    /\ get' = [get EXCEPT ![th].pc = "return"]
    /\ UNCHANGED <<now, audioVars, overlayVars, modeVars, initial_mode, entered_instances, spawned, oneshot, ocr, ocr_failed, face_detector, faces_loaded, known_faces, depth_model, loader, load_log, pre_log, cleanup, before_people, iter_log,
                   current_mode_key, previous_mode_key, factory_calls,
                   returned, main_pc, sw, switches, pre_pc, pre_i,
                   preload_running, visual_assistant, people_done, last_switch>>

\* _get_mode, line 158: return self._mode_instances[key], read at the moment
\* of the return.
Returned(th) == mode_instances[get[th].key]

AtReturn(th) == get[th].pc = "return"

NoteReturn(th) == [returned EXCEPT ![get[th].key] = @ \cup {Returned(th)}]

\* hasattr(mode, "on_enter") and the like: false for None only.
HasHooks(inst) == inst # NoneInst

\* The overlay store after _add_overlay(text, duration=d).
Post(text, d) == AddOverlay(overlays, text, d, now, Len(overlays) + 1)

SwitchText(key) == "Switched to " \o mode_labels[key] \o " mode"

\* _start_background_preload: whether it starts a worker thread, given the
\* flag _preload_running at the call.
SpawnsWorkerAlways(running) == TRUE

SpawnsWorker(running) == ~running

\* The calls and the workers after a call of _start_background_preload.
Started(running) ==
    [calls |-> spawned.calls + 1,
     workers |-> spawned.workers + (IF SpawnsWorker(running) THEN 1 ELSE 0)]

(***************************************************************************)
(* run(), up to the frame loop                                              *)
(***************************************************************************)
\* run() opens the camera.  When it cannot, run() returns at once.
\* Otherwise it starts the preloader and asks for the initial mode.
RunStart(opened) ==
    /\ main_pc = "start"
    /\ IF ~opened
       THEN /\ main_pc' = "returned"
            /\ UNCHANGED <<preload_running, pre_pc, get, spawned>>
       ELSE /\ preload_running' = TRUE
            /\ pre_pc' = IF SpawnsWorker(preload_running) THEN "sleep"
                         ELSE pre_pc
            /\ spawned' = Started(preload_running)
            /\ get' = Call("main", current_mode_key)
            /\ main_pc' = "initial"
    /\ UNCHANGED <<now, audioVars, overlayVars, modeVars, initial_mode, entered_instances, oneshot, ocr, ocr_failed, face_detector, faces_loaded, known_faces, depth_model, loader, load_log, pre_log, cleanup, before_people, iter_log,
                   current_mode_key, previous_mode_key, mode_instances,
                   factory_calls, returned, sw, switches, pre_i,
                   visual_assistant, people_done, last_switch>>

\* PeopleMode.on_enter clears the finished flag of the instance it is called
\* on; the other modes' hooks change nothing the controller reads.
OnEnter(key, inst) ==
    IF key = "people" /\ HasHooks(inst) THEN people_done \ {inst}
    ELSE people_done

\* The entered instances after on_enter was called on inst, the instance
\* returned for key: None has no on_enter.
Entered(key, inst) ==
    IF HasHooks(inst) THEN entered_instances \cup {<<key, inst>>}
    ELSE entered_instances

\* The initial _get_mode returns: on_enter, the "System Ready" overlay (3 s)
\* and the start-up announcement.
InitialEnter ==
    /\ main_pc = "initial"
    /\ AtReturn("main")
    /\ returned' = NoteReturn("main")
    /\ people_done' = OnEnter(current_mode_key, Returned("main"))
    /\ entered_instances' = Entered(current_mode_key, Returned("main"))
    /\ overlays' = Post("System Ready. Sitting Mode.", 6)
    /\ LET r == SpeakOutcome(queue, offered + 1)
       IN  /\ offered' = offered + 1
           /\ queue' = r.q
           /\ accepted' = IF r.status = "queued"
                          THEN Append(accepted, offered + 1) ELSE accepted
           /\ last_speak' = [msg |-> offered + 1, status |-> r.status,
                             before |-> queue, after |-> r.q]
    /\ get' = [get EXCEPT !["main"] = NoCall]
    /\ main_pc' = "read"
    /\ UNCHANGED <<now, worker_pc, playing, n_playing, played, pending,
                   shutdown_pc, pygame_initialized, mixer_open, added,
                   last_active, modeVars, initial_mode, spawned, oneshot, ocr, ocr_failed, face_detector, faces_loaded, known_faces, depth_model, loader, load_log, pre_log, cleanup, before_people, iter_log, current_mode_key,
                   previous_mode_key, mode_instances, factory_calls, sw, switches,
                   pre_pc, pre_i, preload_running, visual_assistant,
                   last_switch>>

(***************************************************************************)
(* _switch_mode                                                             *)
(***************************************************************************)
\* The two early returns of _switch_mode(target): the target is the current
\* key, or it has no factory.
EarlyReturnUnknownOnly(target) == ~Registered(target)

EarlyReturn(target) == target = current_mode_key \/ ~Registered(target)

\* The entry of _switch_mode(target), called where the main thread goes on
\* at cont afterwards: the two early returns, or the request for the
\* current mode's instance.
SwitchBegin(target, cont) ==
    IF EarlyReturn(target)
    THEN /\ main_pc' = cont
         /\ last_switch' = [target |-> target, from |-> current_mode_key,
                            hooks |-> <<>>, n_overlays |-> Len(overlays),
                            escaped |-> FALSE]
         /\ get' = [get EXCEPT !["main"] = NoCall]
         /\ UNCHANGED <<sw, switches>>
    ELSE /\ sw' = [target |-> target, cont |-> cont,
                   from |-> current_mode_key, hooks |-> <<>>,
                   n_overlays |-> Len(overlays)]
         /\ switches' = switches + 1
         /\ get' = Call("main", current_mode_key)
         /\ main_pc' = "sw_exit"
         /\ last_switch' = NoLastSwitch

\* Whether an exception raised by a lifecycle hook leaves _switch_mode: each
\* hook call sits in try/except Exception, which logs and goes on.
HookEscapesNoTry(raises) == raises

HookEscapes(raises) == FALSE

\* The entry of the hooks' log for a hook called on the mode of key.
HookCall(hook, key, raises) ==
    <<hook, key, IF raises THEN "raised" ELSE "ok">>

\* A _switch_mode call that an exception has left.
Escaped == [target |-> sw.target, from |-> sw.from, hooks |-> sw.hooks,
            n_overlays |-> sw.n_overlays, escaped |-> TRUE]

\* The old mode's instance is returned: on_exit (raises: it raises, which
\* is logged and dropped), the key is replaced, the new mode's instance is
\* asked for.
SwitchExit(raises) ==
    /\ main_pc = "sw_exit"
    /\ AtReturn("main")
    /\ raises => HasHooks(Returned("main"))
    /\ returned' = NoteReturn("main")
    /\ entered_instances' =
          IF HasHooks(Returned("main"))
          THEN entered_instances \ {<<current_mode_key, Returned("main")>>}
          ELSE entered_instances
    /\ IF HookEscapes(raises)
       THEN /\ main_pc' = "finally"
            /\ last_switch' = Escaped
            /\ sw' = NoSwitch
            /\ get' = [get EXCEPT !["main"] = NoCall]
            /\ UNCHANGED <<current_mode_key, before_people>>
       ELSE /\ sw' = [sw EXCEPT !.hooks =
                         IF HasHooks(Returned("main"))
                         THEN Append(@, HookCall("on_exit", current_mode_key,
                                                 raises))
                         ELSE @]
            /\ current_mode_key' = sw.target
            /\ before_people' = IF sw.target = "people" THEN current_mode_key
                                ELSE before_people
            /\ get' = Call("main", sw.target)
            /\ main_pc' = "sw_enter"
            /\ UNCHANGED last_switch
    /\ UNCHANGED <<now, audioVars, overlayVars, modeVars, initial_mode, spawned, oneshot, ocr, ocr_failed, face_detector, faces_loaded, known_faces, depth_model, loader, load_log, pre_log, cleanup, iter_log,
                   previous_mode_key, mode_instances, factory_calls, switches,
                   pre_pc, pre_i, preload_running, visual_assistant,
                   people_done>>

\* The new mode's instance is returned: on_enter (raises: it raises before
\* it has changed anything, which is logged and dropped) and the overlay
\* announcing the switch (2.5 s).
SwitchEnter(raises) ==
    /\ main_pc = "sw_enter"
    /\ AtReturn("main")
    /\ raises => HasHooks(Returned("main"))
    /\ returned' = NoteReturn("main")
    /\ entered_instances' = Entered(current_mode_key, Returned("main"))
    /\ people_done' = IF raises THEN people_done
                      ELSE OnEnter(current_mode_key, Returned("main"))
    /\ IF HookEscapes(raises)
       THEN /\ main_pc' = "finally"
            /\ last_switch' = Escaped
            /\ UNCHANGED overlays
       ELSE /\ overlays' = Post(SwitchText(current_mode_key), 5)
            /\ last_switch' =
                  [target |-> sw.target, from |-> sw.from,
                   hooks |-> IF HasHooks(Returned("main"))
                             THEN Append(sw.hooks,
                                         HookCall("on_enter", current_mode_key,
                                                  raises))
                             ELSE sw.hooks,
                   n_overlays |-> sw.n_overlays, escaped |-> FALSE]
            /\ main_pc' = sw.cont
    /\ sw' = NoSwitch
    /\ get' = [get EXCEPT !["main"] = NoCall]
    /\ UNCHANGED <<now, audioVars, added, last_active, modeVars, initial_mode, spawned, oneshot, ocr, ocr_failed, face_detector, faces_loaded, known_faces, depth_model, loader, load_log, pre_log, cleanup, before_people, iter_log,
                   current_mode_key, previous_mode_key, mode_instances,
                   factory_calls, switches, pre_pc, pre_i, preload_running,
                   visual_assistant>>

(***************************************************************************)
(* The frame loop of run()                                                  *)
(***************************************************************************)
\* capture.read(): a failed grab leaves the loop; otherwise the current
\* mode's instance is asked for.
LoopRead(ret) ==
    /\ main_pc = "read"
    /\ IF ret
       THEN /\ get' = Call("main", current_mode_key)
            /\ main_pc' = "mode"
       ELSE /\ main_pc' = "finally"
            /\ UNCHANGED get
    /\ last_switch' = NoLastSwitch
    /\ oneshot' = Forgotten
    /\ iter_log' = NoIter
    /\ UNCHANGED <<now, audioVars, overlayVars, modeVars, initial_mode, entered_instances, spawned, ocr, ocr_failed, face_detector, faces_loaded, known_faces, depth_model, loader, load_log, pre_log, cleanup, before_people,
                   current_mode_key, previous_mode_key, mode_instances,
                   factory_calls, returned, sw, switches, pre_pc, pre_i,
                   preload_running, visual_assistant, people_done>>

\* current_mode.is_finished() of the people mode, asked at the top of an
\* iteration.
ScanFinished(inst) ==
    current_mode_key = "people" /\ HasHooks(inst) /\ inst \in people_done

\* The people mode has finished: _switch_mode(self.previous_mode_key).
LoopAutoReturn ==
    /\ main_pc = "mode"
    /\ AtReturn("main")
    /\ ScanFinished(Returned("main"))
    /\ returned' = NoteReturn("main")
    /\ SwitchBegin(previous_mode_key, "restored")
    /\ iter_log' = [iter_log EXCEPT !.auto = TRUE]
    /\ UNCHANGED <<now, audioVars, overlayVars, modeVars, initial_mode, entered_instances, spawned, oneshot, ocr, ocr_failed, face_detector, faces_loaded, known_faces, depth_model, loader, load_log, pre_log, cleanup, before_people,
                   current_mode_key, previous_mode_key, mode_instances,
                   factory_calls, pre_pc, pre_i, preload_running,
                   visual_assistant, people_done>>

\* After the auto-return the instance of the restored mode is asked for.
LoopRestored ==
    /\ main_pc = "restored"
    /\ get' = Call("main", current_mode_key)
    /\ main_pc' = "mode2"
    /\ UNCHANGED <<now, audioVars, overlayVars, modeVars, initial_mode, entered_instances, spawned, oneshot, ocr, ocr_failed, face_detector, faces_loaded, known_faces, depth_model, loader, load_log, pre_log, cleanup, before_people, iter_log,
                   current_mode_key, previous_mode_key, mode_instances,
                   factory_calls, returned, sw, switches, pre_pc, pre_i,
                   preload_running, visual_assistant, people_done, last_switch>>

\* What process_frame can do on the instance when its collaborators may
\* fail: "ok", "finish" (a PeopleMode ends its scan and returns the summary)
\* or "raise".  None is not called; a finished PeopleMode returns "Scan
\* Complete" at once; GuardianMode catches what depth estimation raises and
\* shows "Depth Error"; ReadingMode calls engine.ocr and PeopleMode the face
\* detector and encoder outside any try.
FrameOutcomes(inst) ==
    IF ~HasHooks(inst) THEN {"ok"}
    ELSE IF current_mode_key = "people"
         THEN IF inst \in people_done THEN {"ok"} ELSE {"ok", "finish", "raise"}
    ELSE IF current_mode_key = "guardian" THEN {"ok"}
    ELSE {"ok", "raise"}

\* The rest of an iteration up to the key: process_frame on the instance
\* returned (an exception leaves the loop), then _active_overlays.  What the
\* frame makes the mode say is followed in the specifications of the modes.
LoopProcess(outcome) ==
    /\ main_pc \in {"mode", "mode2"}
    /\ AtReturn("main")
    /\ main_pc = "mode" => ~ScanFinished(Returned("main"))
    /\ outcome \in FrameOutcomes(Returned("main"))
    /\ returned' = NoteReturn("main")
    /\ get' = [get EXCEPT !["main"] = NoCall]
    /\ iter_log' = [iter_log EXCEPT
                       !.processed = get["main"].key,
                       !.entered = ~HasHooks(Returned("main"))
                                      \/ <<get["main"].key, Returned("main")>>
                                            \in entered_instances]
    /\ people_done' = IF outcome = "finish"
                      THEN people_done \cup {Returned("main")}
                      ELSE people_done
    /\ IF outcome = "raise"
       THEN /\ main_pc' = "finally"
            /\ UNCHANGED overlays
       ELSE /\ main_pc' = "key"
            /\ overlays' = ActiveOverlays(overlays, now).overlays
    /\ UNCHANGED <<now, audioVars, added, last_active, modeVars, initial_mode, entered_instances, spawned, oneshot, ocr, ocr_failed, face_detector, faces_loaded, known_faces, depth_model, loader, load_log, pre_log, cleanup, before_people,
                   current_mode_key, previous_mode_key, mode_instances,
                   factory_calls, sw, switches, pre_pc, pre_i, preload_running,
                   visual_assistant, last_switch>>

\* cv2.waitKey: "q" quits, "0".."3" ask for a mode, no key or a key without
\* binding starts the next iteration.  The one-shot requests "4", "5" and
\* "t" write neither the mode keys nor the registry; "4" and "5" are the
\* action OneShot.
Hotkeys == {"q", "0", "1", "2", "3", "none"}

HotkeyTarget(k) ==
    CASE k = "0" -> "sitting"
      [] k = "1" -> "guardian"
      [] k = "2" -> "reading"
      [] k = "3" -> "people"

LoopKey(k) ==
    /\ main_pc = "key"
    /\ (k \in {"0", "1", "2", "3"} /\ HotkeyTarget(k) # current_mode_key) =>
          switches < MaxSwitches
    /\ CASE k = "q" ->
              /\ main_pc' = "finally"
              /\ UNCHANGED <<previous_mode_key, get, sw, switches, last_switch>>
         [] k = "none" ->
              /\ main_pc' = "read"
              /\ UNCHANGED <<previous_mode_key, get, sw, switches, last_switch>>
         [] k = "3" ->
              IF current_mode_key # "people"
              THEN /\ previous_mode_key' = current_mode_key
                   /\ SwitchBegin("people", "read")
              ELSE /\ main_pc' = "read"
                   /\ UNCHANGED <<previous_mode_key, get, sw, switches, last_switch>>
         [] OTHER ->
              /\ SwitchBegin(HotkeyTarget(k), "read")
              /\ UNCHANGED previous_mode_key
    /\ UNCHANGED <<now, audioVars, overlayVars, modeVars, initial_mode, entered_instances, spawned, oneshot, ocr, ocr_failed, face_detector, faces_loaded, known_faces, depth_model, loader, load_log, pre_log, cleanup, before_people, iter_log,
                   current_mode_key, mode_instances, factory_calls, returned, pre_pc, pre_i, preload_running, visual_assistant,
                   people_done>>

\* Keys without a factory that _switch_mode is called with.
UnregisteredKeys == {"scene"}

\* _switch_mode(key) called between two iterations with such a key.
SwitchRequest(key) ==
    /\ main_pc = "key"
    /\ SwitchBegin(key, "read")
    /\ UNCHANGED <<now, audioVars, overlayVars, modeVars, initial_mode, entered_instances, spawned, oneshot, ocr, ocr_failed, face_detector, faces_loaded, known_faces, depth_model, loader, load_log, pre_log, cleanup, before_people, iter_log,
                   current_mode_key, previous_mode_key, mode_instances,
                   factory_calls, returned, pre_pc, pre_i,
                   preload_running, visual_assistant, people_done>>

(***************************************************************************)
(* The one-shot requests: _handle_caption_request, _handle_vqa_request      *)
(***************************************************************************)
MaxOneShots == 1      \* one-shot requests handled in a run

\* Whether an exception raised inside a handler leaves it: the whole body of
\* each handler sits in try/except Exception.
HandlerEscapesNoTry(raised) == raised

HandlerEscapes(raised) == FALSE

\* What the collaborators of a caption request can do: VisualAssistant()
\* raises (only when none has been built), generate_caption raises, returns
\* an empty caption or returns a caption.
CaptionCollab == {"init_raises", "raises", "empty", "text"}

\* The same for a spoken question: SpeechListener() raises (only when none
\* has been built), listen_for_command raises or hears nothing, and then as
\* for the caption with answer_question.
VqaCollab ==
    {"listener_raises", "listen_raises", "no_question",
     "init_raises", "raises", "empty", "text"}

Overlay(text, d) == [text |-> text, d |-> d]

\* The try block of _handle_caption_request up to the point where it ends or
\* raises; has: a VisualAssistant has been built.
CaptionTry(collab, has) ==
    LET begin == [posted |-> <<Overlay("Analyzing scene...", 4)>>,
                  spoken |-> <<>>, assistant |-> has, listener |-> FALSE]
    IN  IF ~has /\ collab = "init_raises"
        THEN begin @@ [calls |-> <<"VisualAssistant">>, raised |-> TRUE]
        ELSE LET calls == (IF has THEN <<>> ELSE <<"VisualAssistant">>)
                             \o <<"generate_caption">>
                 built == [begin EXCEPT !.assistant = TRUE] @@ [calls |-> calls]
             IN  CASE collab = "raises" -> built @@ [raised |-> TRUE]
                   [] collab = "empty" ->
                        [built EXCEPT !.posted =
                            Append(@, Overlay("Caption: (no description)", 6))]
                        @@ [raised |-> FALSE]
                   [] OTHER ->
                        [built EXCEPT
                            !.posted = Append(@, Overlay("Caption: a room", 12)),
                            !.spoken = <<"a room">>]
                        @@ [raised |-> FALSE]

\* The try block of _handle_vqa_request; hasL: a SpeechListener has been
\* built, has: a VisualAssistant has been built.
VqaTry(collab, hasL, has) ==
    LET none == [posted |-> <<>>, spoken |-> <<>>, assistant |-> has,
                 listener |-> hasL]
        first == IF hasL THEN <<>> ELSE <<"SpeechListener">>
        listening ==
            [none EXCEPT !.listener = TRUE,
                         !.posted = <<Overlay("Listening... (Speak now)", 10)>>,
                         !.spoken = <<"Listening...">>]
        asked ==
            [listening EXCEPT
                !.posted = @ \o <<Overlay("Q: what is this", 8),
                                  Overlay("Thinking...", 4)>>,
                !.spoken = Append(@, "You asked: what is this")]
        built == [asked EXCEPT !.assistant = TRUE]
        ask == first \o <<"listen_for_command">>
                     \o (IF has THEN <<>> ELSE <<"VisualAssistant">>)
        answer == ask \o <<"answer_question">>
    IN  CASE ~hasL /\ collab = "listener_raises" ->
               none @@ [calls |-> first, raised |-> TRUE]
          [] collab = "listen_raises" ->
               listening @@ [calls |-> first \o <<"listen_for_command">>,
                             raised |-> TRUE]
          [] collab = "no_question" ->
               [listening EXCEPT
                   !.posted = Append(@, Overlay("No question heard.", 4)),
                   !.spoken = Append(@, "I didn't hear a question.")]
               @@ [calls |-> first \o <<"listen_for_command">>,
                   raised |-> FALSE]
          [] ~has /\ collab = "init_raises" ->
               asked @@ [calls |-> ask, raised |-> TRUE]
          [] collab = "raises" ->
               built @@ [calls |-> answer, raised |-> TRUE]
          [] collab = "empty" ->
               [built EXCEPT
                   !.posted = Append(@, Overlay("Could not answer.", 4)),
                   !.spoken = Append(@, "I couldn't find an answer.")]
               @@ [calls |-> answer, raised |-> FALSE]
          [] OTHER ->
               [built EXCEPT
                   !.posted = Append(@, Overlay("A: a chair", 12)),
                   !.spoken = Append(@, "a chair")]
               @@ [calls |-> answer, raised |-> FALSE]

\* The except block of a handler, entered when the try block raised and the
\* exception does not leave the handler.
Handled(kind, try) ==
    IF ~try.raised \/ HandlerEscapes(try.raised) THEN try
    ELSE IF kind = "caption"
    THEN [try EXCEPT !.posted =
             Append(@, Overlay("Caption error - see logs", 6))]
    ELSE [try EXCEPT
             !.posted = Append(@, Overlay("Error processing question", 6)),
             !.spoken = Append(@, "Sorry, I encountered an error.")]

\* The overlay store after the _add_overlay calls of a handler.
RECURSIVE PostAll(_, _)
PostAll(ovs, posted) ==
    IF posted = <<>> THEN ovs
    ELSE PostAll(AddOverlay(ovs, Head(posted).text, Head(posted).d, now,
                            Len(ovs) + 1),
                 Tail(posted))

\* The speech queue after n messages, numbered from first, have been handed
\* to AudioPlayer.speak one after the other.
RECURSIVE SpeakAll(_, _, _)
SpeakAll(st, first, n) ==
    IF n = 0 THEN st
    ELSE LET r == SpeakOutcome(st.q, first)
         IN  SpeakAll([q |-> r.q,
                       accepted |-> IF r.status = "queued"
                                    THEN Append(st.accepted, first)
                                    ELSE st.accepted,
                       last |-> [msg |-> first, status |-> r.status,
                                 before |-> st.q, after |-> r.q]],
                      first + 1, n - 1)

\* The key "5" (caption) or "4" (spoken question): the handler is run on the
\* frame of this iteration, and the loop goes on unless an exception left
\* the handler.
OneShot(kind, collab) ==
    /\ main_pc = "key"
    /\ oneshot.n < MaxOneShots
    /\ kind = "caption" => collab \in CaptionCollab
    /\ kind = "vqa" => collab \in VqaCollab
    /\ collab = "init_raises" => ~visual_assistant
    /\ collab = "listener_raises" => ~oneshot.speech_listener
    /\ LET try == IF kind = "caption"
                  THEN CaptionTry(collab, visual_assistant)
                  ELSE VqaTry(collab, oneshot.speech_listener,
                              visual_assistant)
           h == Handled(kind, try)
           said == SpeakAll([q |-> queue, accepted |-> accepted,
                             last |-> last_speak],
                            offered + 1, Len(h.spoken))
       IN  /\ overlays' = PostAll(overlays, h.posted)
           /\ queue' = said.q
           /\ accepted' = said.accepted
           /\ last_speak' = said.last
           /\ offered' = offered + Len(h.spoken)
           /\ visual_assistant' = h.assistant
           /\ oneshot' =
                 [kind |-> kind, collab |-> collab, posted |-> h.posted,
                  spoken |-> h.spoken, calls |-> h.calls,
                  escaped |-> HandlerEscapes(try.raised),
                  speech_listener |->
                      IF kind = "vqa" THEN h.listener
                      ELSE oneshot.speech_listener,
                  n |-> oneshot.n + 1]
           /\ main_pc' = IF HandlerEscapes(try.raised) THEN "finally"
                         ELSE "read"
    /\ UNCHANGED <<now, worker_pc, playing, n_playing, played, pending,
                   shutdown_pc, pygame_initialized, mixer_open, added,
                   last_active, modeVars, initial_mode, entered_instances, spawned, ocr, ocr_failed,
                   face_detector, faces_loaded, known_faces, depth_model,
                   loader, load_log, pre_log, cleanup, before_people, iter_log,
                   current_mode_key, previous_mode_key, mode_instances,
                   factory_calls, returned, get, sw, switches, pre_pc, pre_i,
                   preload_running, people_done, last_switch>>

(***************************************************************************)
(* The finally block of run()                                               *)
(***************************************************************************)
\* The stop flag is cleared and the preloader is joined for at most 1 s.
CleanupStop ==
    /\ main_pc = "finally"
    /\ preload_running' = FALSE
    /\ get' = [get EXCEPT !["main"] = NoCall]
    /\ sw' = NoSwitch
    /\ last_switch' = NoLastSwitch
    /\ oneshot' = Forgotten
    /\ iter_log' = NoIter
    /\ cleanup' = [cleanup EXCEPT !.log = <<"stop">>]
    /\ main_pc' = "join"
    /\ UNCHANGED <<now, audioVars, overlayVars, modeVars, initial_mode, entered_instances, spawned, ocr, ocr_failed, face_detector, faces_loaded, known_faces, depth_model, loader, load_log, pre_log, before_people,
                   current_mode_key, previous_mode_key, mode_instances,
                   factory_calls, returned, switches, pre_pc, pre_i,
                   visual_assistant, people_done>>

\* The keys the registry holds an instance for.
Constructed == {k \in Keys : mode_instances[k] # Absent}

\* The join returns, the preloader having ended or the second having
\* passed: the camera is released, the windows are destroyed and the
\* iterator over _mode_instances.values() is created, which notes the size
\* of the dictionary.
CleanupFinish ==
    /\ main_pc = "join"
    /\ main_pc' = "iter"
    /\ cleanup' = [log |-> cleanup.log \o <<"join", "release", "destroy">>,
                   used |-> Cardinality(Constructed), visited |-> {}]
    /\ UNCHANGED <<now, audioVars, overlayVars, modeVars, initial_mode, entered_instances, spawned, oneshot, ocr, ocr_failed, face_detector, faces_loaded, known_faces, depth_model, loader, load_log, pre_log, before_people, iter_log,
                   current_mode_key, previous_mode_key, mode_instances,
                   factory_calls, returned, get, sw, switches, pre_pc, pre_i,
                   preload_running, visual_assistant, people_done, last_switch>>

\* Whether the dictionary iterator raises RuntimeError (dictionary changed
\* size during iteration): every step of it compares the size of the
\* dictionary with the size noted at its creation.
ChangedSize == Cardinality(Constructed) # cleanup.used

\* One step of `for mode in self._mode_instances.values()`: the iterator
\* raises if the dictionary changed size, which nothing in the finally block
\* catches; otherwise the next instance gets on_exit (raises: it raises, which
\* is dropped); after the last one AudioPlayer.shutdown() is called.
CleanupOnExit(raises) ==
    /\ main_pc = "iter"
    /\ IF ChangedSize
       THEN /\ ~raises
            /\ main_pc' = "escaped"
            /\ UNCHANGED <<cleanup, shutdown_pc>>
       ELSE IF cleanup.visited # Constructed
       THEN /\ \E k \in Constructed \ cleanup.visited :
                 /\ raises => HasHooks(mode_instances[k])
                 /\ cleanup' = [cleanup EXCEPT !.visited = @ \cup {k}]
            /\ UNCHANGED <<main_pc, shutdown_pc>>
       ELSE /\ ~raises
            /\ cleanup' = [cleanup EXCEPT !.log = @ \o <<"on_exit", "shutdown">>]
            /\ shutdown_pc' = IF shutdown_pc = "idle" THEN "put" ELSE shutdown_pc
            /\ main_pc' = "done"
    /\ UNCHANGED <<now, queue, worker_pc, playing, n_playing, played, accepted,
                   offered, pending, last_speak, pygame_initialized,
                   mixer_open, overlayVars, modeVars, initial_mode, entered_instances, spawned, oneshot, ocr, ocr_failed, face_detector, faces_loaded, known_faces, depth_model, loader, load_log, pre_log, before_people, iter_log,
                   current_mode_key, previous_mode_key, mode_instances,
                   factory_calls, returned, get, sw, switches, pre_pc, pre_i,
                   preload_running, visual_assistant, people_done, last_switch>>

(***************************************************************************)
(* preload_worker                                                           *)
(***************************************************************************)
\* time.sleep(2) ends.
PreWake ==
    /\ pre_pc = "sleep"
    /\ pre_pc' = "loop"
    /\ pre_i' = 1
    /\ UNCHANGED <<now, audioVars, overlayVars, modeVars, initial_mode, entered_instances, spawned, oneshot, ocr, ocr_failed, face_detector, faces_loaded, known_faces, depth_model, loader, load_log, pre_log, cleanup, before_people, iter_log,
                   current_mode_key, previous_mode_key, mode_instances,
                   factory_calls, returned, main_pc, get, sw, switches,
                   preload_running, visual_assistant, people_done, last_switch>>

\* The head of the for loop: it ends after the last key or when the stop
\* flag is cleared; otherwise the mode's instance is asked for.
PreNext ==
    /\ pre_pc = "loop"
    /\ IF pre_i > Len(preload_order) \/ ~preload_running
       THEN /\ pre_pc' = "va"
            /\ UNCHANGED get
       ELSE /\ get' = Call("pre", preload_order[pre_i])
            /\ pre_pc' = "get"
    /\ UNCHANGED <<now, audioVars, overlayVars, modeVars, initial_mode, entered_instances, spawned, oneshot, ocr, ocr_failed, face_detector, faces_loaded, known_faces, depth_model, loader, load_log, pre_log, cleanup, before_people, iter_log,
                   current_mode_key, previous_mode_key, mode_instances,
                   factory_calls, returned, main_pc, sw, switches, pre_i,
                   preload_running, visual_assistant, people_done, last_switch>>

\* current_mode_key after the preloader has been given the instance of key:
\* the worker calls _get_mode, never _switch_mode.
AfterPreloadSwitched(key) == key

AfterPreload(key) == current_mode_key

\* The instance is returned: its lazy loader is run (an exception is logged
\* and dropped) and the thread sleeps 1 s.
PreLoad ==
    /\ pre_pc = "get"
    /\ AtReturn("pre")
    /\ returned' = NoteReturn("pre")
    /\ get' = [get EXCEPT !["pre"] = NoCall]
    /\ pre_i' = pre_i + 1
    /\ pre_pc' = "loop"
    /\ current_mode_key' = AfterPreload(get["pre"].key)
    /\ UNCHANGED <<now, audioVars, overlayVars, modeVars, initial_mode, entered_instances, spawned, oneshot, ocr, ocr_failed, face_detector, faces_loaded, known_faces, depth_model, loader, load_log, pre_log, cleanup, before_people, iter_log,
                   previous_mode_key, mode_instances,
                   factory_calls, main_pc, sw, switches, preload_running,
                   visual_assistant, people_done, last_switch>>

\* The visual assistant is preloaded unless the stop flag is cleared.
PreVisual ==
    /\ pre_pc = "va"
    /\ visual_assistant' = (visual_assistant \/ preload_running)
    /\ pre_pc' = "done"
    /\ UNCHANGED <<now, audioVars, overlayVars, modeVars, initial_mode, entered_instances, spawned, oneshot, ocr, ocr_failed, face_detector, faces_loaded, known_faces, depth_model, loader, load_log, pre_log, cleanup, before_people, iter_log,
                   current_mode_key, previous_mode_key, mode_instances,
                   factory_calls, returned, main_pc, get, sw, switches, pre_i,
                   preload_running, people_done, last_switch>>

InitController ==
    /\ now = T0
    /\ AudioInit
    /\ OverlayInit
    /\ mut = "none"
    /\ entered = FALSE
    /\ guardian = 0
    /\ reading = 0
    /\ people = 0
    /\ last_frame = NoFrame
    /\ emit_times = <<>>
    /\ ocr_hist = <<>>
    /\ seen = {}
    /\ session = 0
    /\ near_run = 0
    /\ depth_runs = {}
    /\ face_speech = NoFaceSpeech
    /\ warned = {}
    /\ \E initial \in InitialModes : ControllerNew(initial)

NextController ==
    \/ \E th \in Threads : GetCheck(th)
    \/ \E th \in Threads : GetConstruct(th)
    \/ \E th \in Threads : GetStore(th)
    \/ \E opened \in BOOLEAN : RunStart(opened)
    \/ InitialEnter
    \/ \E raises \in BOOLEAN : SwitchExit(raises)
    \/ \E raises \in BOOLEAN : SwitchEnter(raises)
    \/ \E ret \in BOOLEAN : LoopRead(ret)
    \/ LoopAutoReturn
    \/ LoopRestored
    \/ \E outcome \in {"ok", "finish", "raise"} : LoopProcess(outcome)
    \/ \E k \in Hotkeys : LoopKey(k)
    \/ \E key \in UnregisteredKeys : SwitchRequest(key)
    \/ CleanupStop
    \/ CleanupFinish
    \/ \E raises \in BOOLEAN : CleanupOnExit(raises)
    \/ PreWake
    \/ PreNext
    \/ PreLoad
    \/ PreVisual

SpecController == InitController /\ [][NextController]_vars

(***************************************************************************)
(* The preloader started more than once                                     *)
(***************************************************************************)
MaxStarts == 2        \* calls of _start_background_preload in a run

\* _start_background_preload called again between two iterations: it
\* returns at once when the flag is set, and otherwise sets the flag and
\* starts a worker.
StartAgain ==
    /\ main_pc = "key"
    /\ spawned.calls < MaxStarts
    /\ spawned' = Started(preload_running)
    /\ preload_running' = TRUE
    /\ IF SpawnsWorker(preload_running)
       THEN /\ pre_pc' = "sleep"
            /\ pre_i' = 0
            /\ get' = [get EXCEPT !["pre"] = NoCall]
       ELSE UNCHANGED <<pre_pc, pre_i, get>>
    /\ UNCHANGED <<now, audioVars, overlayVars, modeVars, initial_mode, entered_instances, oneshot, ocr, ocr_failed, face_detector, faces_loaded, known_faces, depth_model, loader, load_log, pre_log, cleanup, before_people, iter_log,
                   current_mode_key, previous_mode_key, mode_instances,
                   factory_calls, returned, main_pc, sw, switches,
                   visual_assistant, people_done, last_switch>>

InitPreloader ==
    /\ InitController
    /\ initial_mode = NoArg

\* A run in which no mode is asked for by a key, with the preloader.
NextPreloader ==
    \/ \E th \in Threads : GetCheck(th)
    \/ \E th \in Threads : GetConstruct(th)
    \/ \E th \in Threads : GetStore(th)
    \/ RunStart(TRUE)
    \/ InitialEnter
    \/ \E ret \in BOOLEAN : LoopRead(ret)
    \/ LoopProcess("ok")
    \/ \E k \in {"q", "none"} : LoopKey(k)
    \/ StartAgain
    \/ CleanupStop
    \/ CleanupFinish
    \/ \E raises \in BOOLEAN : CleanupOnExit(raises)
    \/ PreWake
    \/ PreNext
    \/ PreLoad
    \/ PreVisual

SpecPreloader == InitPreloader /\ [][NextPreloader]_vars

(***************************************************************************)
(* The controller with the one-shot requests                                *)
(***************************************************************************)
OneShotKinds == {"caption", "vqa"}

\* The frame loop up to the point where it is left, with the preloader, the
\* keys being "3", "4", "5", "q" or none.
NextOneShot ==
    \/ \E th \in Threads : GetCheck(th)
    \/ \E th \in Threads : GetConstruct(th)
    \/ \E th \in Threads : GetStore(th)
    \/ RunStart(TRUE)
    \/ InitialEnter
    \/ \E raises \in BOOLEAN : SwitchExit(raises)
    \/ \E raises \in BOOLEAN : SwitchEnter(raises)
    \/ LoopRead(TRUE)
    \/ LoopAutoReturn
    \/ LoopRestored
    \/ \E outcome \in {"ok", "finish", "raise"} : LoopProcess(outcome)
    \/ \E k \in {"q", "3", "none"} : LoopKey(k)
    \/ PreWake
    \/ PreNext
    \/ PreLoad
    \/ PreVisual
    \/ \E kind \in OneShotKinds, collab \in CaptionCollab \cup VqaCollab :
          OneShot(kind, collab)

InitOneShot ==
    /\ InitController
    /\ initial_mode = NoArg

SpecOneShot == InitOneShot /\ [][NextOneShot]_vars


(***************************************************************************)
(* The lazy loaders, as the preloader and the main thread run them         *)
(***************************************************************************)
MaxAttempts == 2      \* constructions of one object the main thread may start

\* The mode that owns a heavy object, and the loader the preloader finds on
\* a mode: _ensure_loaded on PeopleMode, _ensure_ocr on ReadingMode, none on
\* GuardianMode.
ModeOf(o) ==
    CASE o = "ocr" -> "reading"
      [] o = "faces" -> "people"
      [] o = "depth" -> "guardian"

LoaderOf(key) ==
    CASE key = "reading" -> "ocr"
      [] key = "people" -> "faces"
      [] OTHER -> "none"

\* The object is there.
Loaded(o) ==
    CASE o = "ocr" -> ocr # 0
      [] o = "faces" -> faces_loaded
      [] o = "depth" -> depth_model # 0
      [] o = "assistant" -> visual_assistant

\* The test at the head of a loader: it returns without constructing.
\* _ensure_ocr also returns when _ocr_failed is set; the other loaders
\* remember no failure.
Cached(o) == Loaded(o) \/ (o = "ocr" /\ ocr_failed)

\* How a construction can end.  PeopleMode's has two parts, the detector
\* and the known faces.
Outcomes(o) == IF o = "faces" THEN {"ok", "fail", "fail_faces"} ELSE {"ok", "fail"}

\* The thread passes the head of the loader of o and starts constructing.
Enter(th, o) ==
    /\ loader' = [loader EXCEPT ![th] = o]
    /\ load_log' = [load_log EXCEPT ![o].attempts = @ + 1,
                              ![o].retries = IF load_log[o].failed # {} THEN @ + 1 ELSE @]

\* The thread's construction of o ends: the loader stores what it built,
\* or, for the OCR engine, that it failed.
Store(th, o, outcome) ==
    /\ loader' = [loader EXCEPT ![th] = "idle"]
    /\ load_log' = [load_log EXCEPT ![o].built = IF outcome = "ok" THEN @ + 1 ELSE @,
                              ![o].failed = IF outcome = "ok" THEN @ ELSE @ \cup {th}]
    /\ ocr' = IF o = "ocr" /\ outcome = "ok" THEN 1 ELSE ocr
    /\ ocr_failed' = (ocr_failed \/ (o = "ocr" /\ outcome # "ok"))
    /\ face_detector' = IF o = "faces" /\ outcome \in {"ok", "fail_faces"}
                        THEN 1 ELSE face_detector
    /\ known_faces' = IF o = "faces" /\ outcome = "ok" THEN known_faces + 1
                      ELSE known_faces
    /\ faces_loaded' = (faces_loaded \/ (o = "faces" /\ outcome = "ok"))
    /\ depth_model' = IF o = "depth" /\ outcome = "ok" THEN 1 ELSE depth_model
    /\ visual_assistant' = (visual_assistant \/ (o = "assistant" /\ outcome = "ok"))

\* The main thread, in the frame loop, calls a loader: ReadingMode's on a
\* frame on which OCR runs, PeopleMode's in on_enter, DepthAnalyzer's on a
\* frame on which depth runs, _ensure_visual_assistant on a caption or
\* question request.  A loader that finds its object returns it; one that
\* finds it missing and does not construct returns nothing.
MainEnsureBegin(o) ==
    /\ main_pc = "read"
    /\ loader["main"] = "idle"
    /\ o # "assistant" => mode_instances[ModeOf(o)] > NoneInst
    /\ ~Loaded(o)
    /\ IF Cached(o)
       THEN /\ ~load_log[o].refused
            /\ load_log' = [load_log EXCEPT ![o].refused = TRUE]
            /\ UNCHANGED loader
       ELSE /\ load_log[o].attempts < MaxAttempts
            /\ Enter("main", o)
    /\ UNCHANGED <<now, audioVars, overlayVars, modeVars, initial_mode, entered_instances, spawned, oneshot, cleanup,
                   before_people, iter_log, current_mode_key, previous_mode_key,
                   main_pc, sw, switches, preload_running, people_done, last_switch,
                   mode_instances, factory_calls, returned, get, pre_pc, pre_i,
                   visual_assistant, ocr, ocr_failed, face_detector,
                   faces_loaded, known_faces, depth_model, pre_log>>

MainEnsureEnd(outcome) ==
    /\ loader["main"] # "idle"
    /\ outcome \in Outcomes(loader["main"])
    /\ Store("main", loader["main"], outcome)
    /\ UNCHANGED <<now, audioVars, overlayVars, modeVars, initial_mode, entered_instances, spawned, oneshot, cleanup,
                   before_people, iter_log, current_mode_key, previous_mode_key,
                   main_pc, sw, switches, preload_running, people_done, last_switch,
                   mode_instances, factory_calls, returned, get, pre_pc, pre_i,
                   pre_log>>

\* Where the preloader goes on after the except clause of the try statement
\* inside its for loop: at the head of the loop, with the next key.
ExceptTargetOuter == "va_done"

ExceptTarget == "loop"

\* The factory raises inside the preloader's _get_mode: the except clause
\* logs it.
PreFactoryRaises ==
    /\ pre_pc = "get"
    /\ get["pre"].pc = "construct"
    /\ get' = [get EXCEPT !["pre"] = NoCall]
    /\ pre_log' = Append(pre_log, <<get["pre"].key, "raised">>)
    /\ pre_i' = pre_i + 1
    /\ pre_pc' = ExceptTarget
    /\ UNCHANGED <<now, audioVars, overlayVars, modeVars, initial_mode, entered_instances, spawned, oneshot, cleanup,
                   before_people, iter_log, current_mode_key, previous_mode_key,
                   main_pc, sw, switches, preload_running, people_done, last_switch,
                   mode_instances, factory_calls, returned, visual_assistant,
                   ocr, ocr_failed, face_detector, faces_loaded, known_faces,
                   depth_model, loader, load_log>>

\* The preloader's _get_mode returns: the loader found on the mode is
\* called; without one, or when the loader returns at once, the thread
\* sleeps 1 s and goes to the next key.
PreEnsureBegin ==
    /\ pre_pc = "get"
    /\ AtReturn("pre")
    /\ returned' = NoteReturn("pre")
    /\ get' = [get EXCEPT !["pre"] = NoCall]
    /\ LET o == LoaderOf(get["pre"].key) IN
       IF o = "none" \/ Cached(o)
       THEN /\ pre_log' = Append(pre_log, <<get["pre"].key, "ok">>)
            /\ pre_i' = pre_i + 1
            /\ pre_pc' = "loop"
            /\ UNCHANGED <<loader, load_log>>
       ELSE /\ Enter("pre", o)
            /\ pre_pc' = "ensure"
            /\ UNCHANGED <<pre_log, pre_i>>
    /\ UNCHANGED <<now, audioVars, overlayVars, modeVars, initial_mode, entered_instances, spawned, oneshot, cleanup,
                   before_people, iter_log, current_mode_key, previous_mode_key,
                   main_pc, sw, switches, preload_running, people_done, last_switch,
                   mode_instances, factory_calls, visual_assistant,
                   ocr, ocr_failed, face_detector, faces_loaded, known_faces,
                   depth_model>>

\* The loader the preloader called returns, having caught what the
\* construction raised.
PreEnsureEnd(outcome) ==
    /\ pre_pc = "ensure"
    /\ outcome \in Outcomes(loader["pre"])
    /\ Store("pre", loader["pre"], outcome)
    /\ pre_log' = Append(pre_log, <<preload_order[pre_i], outcome>>)
    /\ pre_i' = pre_i + 1
    /\ pre_pc' = "loop"
    /\ UNCHANGED <<now, audioVars, overlayVars, modeVars, initial_mode, entered_instances, spawned, oneshot, cleanup,
                   before_people, iter_log, current_mode_key, previous_mode_key,
                   main_pc, sw, switches, preload_running, people_done, last_switch,
                   mode_instances, factory_calls, returned, get>>

\* After the loop: unless the stop flag is cleared, the preloader
\* constructs the VisualAssistant if there is none.
PreAssistantBegin ==
    /\ pre_pc = "va"
    /\ IF ~preload_running
       THEN /\ pre_pc' = "va_done"
            /\ UNCHANGED <<loader, load_log, pre_log>>
       ELSE IF Cached("assistant")
       THEN /\ pre_pc' = "va_done"
            /\ pre_log' = Append(pre_log, <<"assistant", "ok">>)
            /\ UNCHANGED <<loader, load_log>>
       ELSE /\ Enter("pre", "assistant")
            /\ pre_pc' = "va_build"
            /\ UNCHANGED pre_log
    /\ UNCHANGED <<now, audioVars, overlayVars, modeVars, initial_mode, entered_instances, spawned, oneshot, cleanup,
                   before_people, iter_log, current_mode_key, previous_mode_key,
                   main_pc, sw, switches, preload_running, people_done, last_switch,
                   mode_instances, factory_calls, returned, get, pre_i,
                   visual_assistant, ocr, ocr_failed, face_detector,
                   faces_loaded, known_faces, depth_model>>

PreAssistantEnd(outcome) ==
    /\ pre_pc = "va_build"
    /\ outcome \in Outcomes("assistant")
    /\ Store("pre", "assistant", outcome)
    /\ pre_log' = Append(pre_log, <<"assistant", outcome>>)
    /\ pre_pc' = "va_done"
    /\ UNCHANGED <<now, audioVars, overlayVars, modeVars, initial_mode, entered_instances, spawned, oneshot, cleanup,
                   before_people, iter_log, current_mode_key, previous_mode_key,
                   main_pc, sw, switches, preload_running, people_done, last_switch,
                   mode_instances, factory_calls, returned, get, pre_i>>

\* run() is followed from a controller constructed without initial mode.
InitLoaders ==
    /\ InitController
    /\ initial_mode = NoArg

NextLoaders ==
    \/ RunStart(TRUE)
    \/ \E th \in Threads : GetCheck(th)
    \/ \E th \in Threads : GetConstruct(th)
    \/ \E th \in Threads : GetStore(th)
    \/ InitialEnter
    \/ PreWake
    \/ PreNext
    \/ PreFactoryRaises
    \/ PreEnsureBegin
    \/ \E outcome \in {"ok", "fail", "fail_faces"} : PreEnsureEnd(outcome)
    \/ PreAssistantBegin
    \/ \E outcome \in {"ok", "fail"} : PreAssistantEnd(outcome)
    \/ \E o \in Objs : MainEnsureBegin(o)
    \/ \E outcome \in {"ok", "fail", "fail_faces"} : MainEnsureEnd(outcome)

SpecLoaders == InitLoaders /\ [][NextLoaders]_vars


(***************************************************************************)
(* Claims about the speech delivery pipeline, checked under SpecAudio.      *)
(***************************************************************************)
IsPrefix(s, t) ==
    /\ Len(s) <= Len(t)
    /\ \A i \in 1..Len(s) : s[i] = t[i]

\* C3: speak never blocks and never raises, the queue never holds more than
\* its capacity of 10 items, and a message offered to a full queue is
\* discarded with the queued messages left as they were.
C3_SpeakNeverBlocks ==
    /\ Len(queue) <= QueueMaxSize
    /\ last_speak.status \in {"none", "queued", "dropped"}
    /\ last_speak.status = "dropped" =>
          /\ Len(last_speak.before) = QueueMaxSize
          /\ last_speak.after = last_speak.before
    /\ last_speak.status = "queued" =>
          last_speak.after = Append(last_speak.before, last_speak.msg)

C3_Witness ==
    /\ last_speak.status = "dropped"
    /\ Len(queue) = QueueMaxSize

\* C4: the worker starts the synthesis of the accepted messages in the order
\* speak accepted them, and at most one playback is in progress at any time.
C4_SpeechOrder ==
    /\ IsPrefix(played, accepted)
    /\ n_playing <= 1
    /\ (n_playing = 1) = (worker_pc \in {"play", "hung"})

C4_Witness ==
    /\ Len(played) >= 3
    /\ Len(accepted) > Len(played)
    /\ worker_pc = "play"

\* C5: shutdown never waits without bound: it is never inside queue.put(None)
\* with the queue full while the worker takes nothing from the queue any more
\* (stuck in a playback, or exited).
ShutdownBlockedForever ==
    /\ shutdown_pc = "put"
    /\ Len(queue) = QueueMaxSize
    /\ worker_pc \in {"hung", "exited"}

C5_ShutdownReturns == ~ShutdownBlockedForever


(***************************************************************************)
(* Claims about the overlay store, checked under SpecOverlay.               *)
(***************************************************************************)
SeqRange(s) == {s[i] : i \in 1..Len(s)}

\* C6: an overlay added with duration d at time t is returned by every
\* _active_overlays query made at a time in [t, t+d) and by no query made
\* after t+d, whatever was added or pruned in between.
C6_OverlayExpiry ==
    last_active.valid =>
        \A id \in 1..Len(added) :
            /\ (added[id].t <= now /\ now < added[id].t + added[id].d)
                  => id \in SeqRange(last_active.ids)
            /\ now > added[id].t + added[id].d
                  => id \notin SeqRange(last_active.ids)

C6_Witness ==
    /\ last_active.valid
    /\ Len(added) = 2
    /\ 1 \notin SeqRange(last_active.ids)
    /\ 2 \in SeqRange(last_active.ids)
    /\ now > added[1].t + added[1].d
    /\ Len(overlays) < Len(added)


(***************************************************************************)
(* Claims about the perception modes.                                       *)
(***************************************************************************)
Cooldown(m) == IF m = "guardian" THEN warning_cooldown ELSE OCR_COOLDOWN_SECONDS

\* C7: two frames of the same GuardianMode or ReadingMode instance that
\* return speech are more than the mode's cooldown apart, on_exit/on_enter
\* in between included; and a depth-processed frame that shows a near
\* obstacle with the cooldown elapsed returns one warning.  So of five such
\* frames 0.1 s apart the first returns a warning and the other four return
\* none.  Checked under SpecModes.
C7_CooldownRespected ==
    /\ Len(emit_times) = 2 =>
          emit_times[2] - emit_times[1] > Cooldown(mut)
    /\ (last_frame.near /\ last_frame.elapsed) => last_frame.speech = <<"Stop">>
    /\ near_run >= 1 => emit_times # <<>>

C7_Witness ==
    /\ mut = "guardian"
    /\ near_run = 5
    /\ now - emit_times[Len(emit_times)] <= 1
    /\ Len(emit_times) = 2

\* C8: ReadingMode returns speech only on an OCR-processed frame whose text
\* equals that of the OCR-processed frame before it (not on the first such
\* frame, not on a skipped frame), and on such a frame it does return speech
\* when audio is enabled, a line reaches the threshold and the cooldown has
\* elapsed.  Checked under SpecReading.
SameTextTwice == Len(ocr_hist) = 2 /\ ocr_hist[1] = ocr_hist[2]

C8_SpeechOnSecondProcessedFrame ==
    last_frame.mode = "reading" =>
        /\ last_frame.speech # <<>> => (last_frame.ran /\ SameTextTwice)
        /\ (/\ last_frame.ran
            /\ ~last_frame.raised
            /\ SameTextTwice
            /\ ocr_hist[2] # ""
            /\ reading.audio_enabled
            /\ HighConfTexts(reading.last_text_data) # <<>>
            /\ last_frame.elapsed) => last_frame.speech # <<>>

\* C9: is_finished() is true only once at least duration has passed since
\* on_enter, and the one summary is "No one found." when no name was seen,
\* "No one recognized." when only "Unknown" was seen, and otherwise "I see "
\* followed by the known names seen in this session, each once.  Checked
\* under SpecPeople.
C9_ScanSummary ==
    /\ people.finished =>
          /\ session.speeches >= 1
          /\ session.summary_at - session.enter >= duration
    /\ session.speeches >= 1 =>
          /\ seen = {} => session.summary = "No one found."
          /\ (seen # {} /\ KnownNames(seen) = {}) =>
                session.summary = "No one recognized."
          /\ KnownNames(seen) # {} =>
                \E order \in Orders(KnownNames(seen)) :
                    session.summary = "I see " \o JoinAnd(order)

C9_Witness ==
    /\ people.finished
    /\ seen = {"Alice", "Unknown"}
    /\ session.summary = "I see Alice"

\* C10: in a PeopleMode session exactly one process_frame call returns
\* speech, the one that ends the scan: while is_finished() is false no call
\* has returned speech, and once it is true exactly one utterance has been
\* returned, however many calls follow.  Checked under SpecPeople.
C10_OneSummaryPerSession ==
    /\ ~people.finished => session.speeches = 0
    /\ people.finished => session.speeches = 1
    /\ (last_frame.mode = "people" /\ last_frame.speech # <<>>) =>
          Len(last_frame.speech) = 1

C10_Witness ==
    /\ people.finished
    /\ last_frame.info = <<"Scan Complete">>
    /\ session.speeches = 1
    /\ seen # {}


(***************************************************************************)
(* Claims about the mode registry and the switcher, checked under           *)
(* SpecController.                                                          *)
(***************************************************************************)
\* C1: over a whole run, with the main thread and the preloader thread
\* interleaved in any way, each key's factory is invoked at most once and
\* all _get_mode(k) calls return the same instance for k.
C1_LazySingleton ==
    \A k \in Keys :
        /\ factory_calls[k] <= 1
        /\ Cardinality(returned[k]) <= 1

\* C2: current_mode_key is always one of the four registered keys, an
\* initial_mode without factory making the controller start in "sitting";
\* and a _switch_mode call with an unregistered key leaves current_mode_key
\* as it was, invokes no on_exit or on_enter and posts no overlay.
C2_ModeExclusivity ==
    /\ current_mode_key \in {"sitting", "guardian", "reading", "people"}
    /\ (main_pc = "start" /\ initial_mode = "scene") =>
          current_mode_key = "sitting"
    /\ last_switch.target \notin {"", "sitting", "guardian", "reading", "people"} =>
          /\ current_mode_key = last_switch.from
          /\ last_switch.hooks = <<>>
          /\ Len(overlays) = last_switch.n_overlays

C2_Witness ==
    /\ initial_mode = "scene"
    /\ current_mode_key = "guardian"
    /\ last_switch.target = "scene"
    /\ last_switch.from = "guardian"
    /\ main_pc = "read"

\* C11: in an iteration at whose start the people mode is current and
\* finished, the frame is processed by the mode that was current right
\* before the last entry into people mode, and not by the people mode.
C11_AutoReturn ==
    (iter_log.auto /\ iter_log.processed # "") =>
        /\ iter_log.processed # "people"
        /\ iter_log.processed = before_people

\* C12: a _switch_mode call with a registered key other than the current
\* one always completes, whichever of on_exit and on_enter raise: no
\* exception leaves it, current_mode_key is the target afterwards, on_enter
\* is attempted even after a failed on_exit, and the overlay is posted.
C12_BestEffortSwitch ==
    (last_switch.target \in Keys /\ last_switch.target # last_switch.from) =>
        /\ ~last_switch.escaped
        /\ current_mode_key = last_switch.target
        /\ Len(overlays) = last_switch.n_overlays + 1
        /\ last_switch.target # "sitting" =>
              /\ last_switch.hooks # <<>>
              /\ last_switch.hooks[Len(last_switch.hooks)][1] = "on_enter"
              /\ last_switch.hooks[Len(last_switch.hooks)][2] = last_switch.target

C12_Witness ==
    /\ last_switch.hooks = << <<"on_exit", "guardian", "raised">>,
                              <<"on_enter", "reading", "raised">> >>
    /\ current_mode_key = "reading"
    /\ main_pc = "read"

\* C13: whenever run() has left its finally block after the frame loop, the
\* finally block has done all its steps in order: preloader stopped and
\* joined, camera released, windows destroyed, on_exit called on the
\* constructed instances, AudioPlayer.shutdown() called.
C13_ShutdownSequence ==
    main_pc \in {"done", "escaped"} =>
        /\ cleanup.log = <<"stop", "join", "release", "destroy", "on_exit", "shutdown">>
        /\ shutdown_pc # "idle"

\* C14: when run() has returned because the camera could not be opened, the
\* window it created has been destroyed and AudioPlayer.shutdown() has been
\* called, as at the end of the finally block.
C14_CameraFailureReleases ==
    main_pc = "returned" =>
        /\ \E i \in DOMAIN cleanup.log : cleanup.log[i] = "destroy"
        /\ shutdown_pc # "idle"

\* C15: the step that processes a frame, whatever its collaborators raise,
\* never leaves the frame loop and never changes current_mode_key.
C15_CollaboratorFailureRecovered ==
    [][(iter_log.processed = "" /\ iter_log'.processed # "") =>
          /\ main_pc' = "key"
          /\ current_mode_key' = current_mode_key]_vars

\* C16: once a construction of the OCR engine, the depth model or the face
\* models has failed, no construction of that object is started again.
C16_CachedUnavailability ==
    \A o \in {"ocr", "depth", "faces"} : load_log[o].retries = 0

\* The names the preloader has attempted, in order.
AttemptedNames == [i \in DOMAIN pre_log |-> pre_log[i][1]]

\* C17: whatever raised or failed on the way, the preloader attempts the
\* modes in its fixed order, and with the stop flag still set it has
\* attempted guardian, reading, people and the visual assistant when it ends.
C17_PreloaderIsolation ==
    /\ AttemptedNames = SubSeq(preload_order \o <<"assistant">>, 1, Len(pre_log))
    /\ (pre_pc = "va_done" /\ preload_running) => Len(pre_log) = Len(preload_order) + 1

C17_Witness ==
    /\ pre_pc = "va_done"
    /\ pre_log = << <<"guardian", "raised">>, <<"reading", "fail">>,
                    <<"people", "fail">>, <<"assistant", "ok">> >>

\* C18: when only the preloader's construction of an object has failed, a
\* later call of the loader by the main thread that finds the object
\* missing starts a construction.
C18_PreloadFailureNotSticky ==
    \A o \in Objs :
        ("pre" \in load_log[o].failed /\ "main" \notin load_log[o].failed) =>
            ~load_log[o].refused

\* C19: the two threads are never inside the loader of the same object, and
\* the OCR engine, the face models, the known-face lists and the
\* VisualAssistant are each built at most once.
C19_ThreadConfinement ==
    /\ ~(loader["main"] # "idle" /\ loader["main"] = loader["pre"])
    /\ \A o \in {"ocr", "faces", "assistant"} : load_log[o].built <= 1
    /\ known_faces <= 1

\* C20: however the synthesis of a message ends, the worker goes back to
\* waiting on the queue with the queue and the list of messages taken left
\* as they were; the messages are taken in the order they were accepted,
\* none twice; and the worker exits only on the sentinel of shutdown.
C20_WorkerRecovery ==
    /\ [](IsPrefix(played, accepted) /\
          (worker_pc = "exited" => shutdown_pc \notin {"idle", "put"}))
    /\ [][(worker_pc = "play" /\ worker_pc' \notin {"play", "hung"}) =>
             /\ worker_pc' = "wait"
             /\ queue' = queue
             /\ played' = played]_vars

\* Two syntheses have ended with the mixer never initialised, so both
\* failed, and the worker is playing the message queued after them.
C20_Witness ==
    /\ ~pygame_initialized
    /\ Len(played) = 3
    /\ worker_pc = "play"
    /\ playing = played[3]

\* The lines process_frame shows when the OCR engine could not be built.
Unavailable ==
    {"OCR engine unavailable - see logs",
     "OCR engine unavailable - check PaddleOCR install"}

C22_StoppedAfterShutdown ==
    /\ shutdown_pc = "done" => (worker_pc \notin {"play", "hung"} /\ n_playing = 0)
    /\ (worker_pc \in {"play", "hung"} /\ pygame_initialized) => mixer_open

\* The messages on the queue, and those in front of the sentinel.
Messages(q) == SelectSeq(q, LAMBDA item : item # STOP)

RECURSIVE BeforeSentinel(_)
BeforeSentinel(q) ==
    IF q = <<>> \/ Head(q) = STOP THEN <<>>
    ELSE <<Head(q)>> \o BeforeSentinel(Tail(q))

\* C23: the messages accepted are those taken, in order, followed by those
\* still queued; the worker has exited exactly when the sentinel has been
\* taken, with no message accepted before the sentinel left untaken, and what
\* is on the queue then (accepted after the sentinel) is never taken.
C23_Draining ==
    /\ [](/\ accepted = played \o Messages(queue)
          /\ STOP \notin SeqRange(played)
          /\ worker_pc = "exited" <=>
                (shutdown_pc \notin {"idle", "put"} /\ STOP \notin SeqRange(queue))
          /\ (shutdown_pc \in {"idle", "put"}) => STOP \notin SeqRange(queue))
    /\ [][worker_pc = "exited" => played' = played]_vars
    /\ [][(worker_pc # "exited" /\ worker_pc' = "exited") =>
             /\ BeforeSentinel(queue) = <<>>
             /\ Messages(queue') = Messages(queue)]_vars

\* The worker has exited after playing what was queued in front of the
\* sentinel, and a message accepted after the sentinel stays on the queue.
C23_Witness ==
    /\ worker_pc = "exited"
    /\ Len(played) >= 2
    /\ Len(queue) >= 1

\* The overlays added so far that have not expired at time t, oldest first.
Unexpired(t) ==
    SelectSeq([i \in 1..Len(added) |-> i],
              LAMBDA i : added[i].t + added[i].d > t)

RECURSIVE IsSubsequence(_, _)
IsSubsequence(s, t) ==
    IF s = <<>> THEN TRUE
    ELSE IF t = <<>> THEN FALSE
    ELSE IF Head(s) = Head(t) THEN IsSubsequence(Tail(s), Tail(t))
    ELSE IsSubsequence(s, Tail(t))

\* C24: _active_overlays returns the unexpired overlays in insertion order,
\* one entry per overlay added; it leaves exactly those in the store; a
\* second call at the same instant returns the same; and with nothing added
\* the result at any later time is a subsequence of the result now.
C24_ActiveOverlays ==
    LET r == ActiveOverlays(overlays, now)
        again == ActiveOverlays(r.overlays, now)
    IN  /\ r.ids = Unexpired(now)
        /\ Len(r.messages) = Len(r.ids)
        /\ \A i \in 1..Len(r.ids) :
               /\ r.overlays[i].id = r.ids[i]
               /\ r.overlays[i].text = r.messages[i]
               /\ r.overlays[i].expires_at > now
        /\ IsSubsequence(r.overlays, overlays)
        /\ again = r
        /\ last_active.valid =>
               /\ last_active.ids = r.ids
               /\ last_active.messages = r.messages
               /\ overlays = r.overlays
        /\ \A t \in now..MaxTime :
               /\ IsSubsequence(ActiveOverlays(r.overlays, t).ids, r.ids)
               /\ IsSubsequence(ActiveOverlays(r.overlays, t).messages, r.messages)

\* Two overlays with the same text, added at different times, are both
\* returned, the older first, by a query after which the older alone expires.
C24_Witness ==
    /\ last_active.valid
    /\ Len(last_active.messages) = 2
    /\ last_active.messages[1] = last_active.messages[2]
    /\ last_active.ids = <<1, 2>>
    /\ added[1].t < added[2].t
    /\ ActiveOverlays(overlays, now + 1).ids = <<2>>

C26_StabilityGate ==
    (last_frame.mode = "reading" /\ last_frame.speech # <<>>) =>
        /\ Len(ocr_hist) = 2
        /\ ocr_hist[1] = ocr_hist[2]
        /\ ocr_hist[2] # ""

\* The texts of the lines that reach the confidence threshold, in
\* recognition order with one space between two of them.
RECURSIVE SpokenLines(_)
SpokenLines(data) ==
    IF data = <<>> THEN ""
    ELSE LET rest == SpokenLines(Tail(data))
             more == \E i \in 2..Len(data) : data[i].score >= OCR_CONFIDENCE_THRESHOLD
         IN  IF Head(data).score < OCR_CONFIDENCE_THRESHOLD THEN rest
             ELSE IF more THEN Head(data).text \o " " \o rest
             ELSE Head(data).text

\* C27: a ReadingMode frame returns speech only with audio enabled and a
\* recognised line at or above the confidence threshold, and then the one
\* string made of exactly those lines, in order, single spaces between.
\* (frame_count > 0: the frame is the last call on the mode, no on_enter
\* has cleared the lines since.)
C27_ConfidenceGate ==
    (/\ last_frame.mode = "reading"
     /\ last_frame.speech # <<>>
     /\ reading.frame_count > 0) =>
        /\ reading.audio_enabled
        /\ \E i \in DOMAIN reading.last_text_data :
               reading.last_text_data[i].score >= OCR_CONFIDENCE_THRESHOLD
        /\ last_frame.speech = <<SpokenLines(reading.last_text_data)>>

\* Speech from a result with one line above and one below the threshold.
C27_Witness ==
    /\ last_frame.mode = "reading"
    /\ last_frame.speech = <<"EXIT">>
    /\ Len(reading.last_text_data) = 2
    /\ reading.last_text_data[2].score < OCR_CONFIDENCE_THRESHOLD

\* C28: a process_frame call on a scanning PeopleMode leaves it scanning
\* exactly when less than duration has passed since on_enter, and finishes
\* the scan exactly when duration or more has passed.
C28_PhaseBoundary ==
    [][(/\ mut = "people"
        /\ entered
        /\ entered'
        /\ ~people.finished
        /\ now' = now
        /\ people'.start_time = people.start_time
        /\ session'.enter = session.enter) =>
          (people'.finished <=> now - people.start_time >= duration)]_vars

\* C29: on_enter in any state leaves PeopleMode scanning with finished false,
\* an empty seen-set and start_time = now; the seen-set holds the names of
\* the current session only, so the summary names no identity of an earlier
\* session; finished becomes true only by process_frame and false only by
\* on_enter.
C29_ReEntry ==
    /\ [](/\ people.detected_people = seen
          /\ people.start_time = session.enter
          /\ people.finished <=> session.summary # ""
          /\ session.summary # "" =>
                \E order \in Orders(KnownNames(seen)) :
                    session.summary = Summary(seen, order))
    /\ [][(\/ ~entered /\ entered'
           \/ session'.enter # session.enter
           \/ people.finished /\ ~people'.finished) =>
             /\ entered'
             /\ ~people'.finished
             /\ people'.detected_people = {}
             /\ people'.start_time = now
             /\ now' = now]_vars
    /\ [][(~people.finished /\ people'.finished) =>
             /\ entered /\ entered'
             /\ last_frame'.mode = "people"
             /\ last_frame'.speech = <<session'.summary>>
             /\ people'.start_time = people.start_time
             /\ people'.detected_people = people.detected_people]_vars

\* A session entered after Alice was seen in an earlier one, in which only an
\* unknown face was seen, has finished with a summary that does not name her.
C29_Witness ==
    /\ people.finished
    /\ "Alice" \in session.earlier
    /\ seen = {"Unknown"}
    /\ session.summary = "No one recognized."

\* The hooks a completed switch from one key to another invokes, the modes
\* without hooks (the None of "sitting") left out.
ExpectedHooks(from, target) ==
    (IF from = "sitting" THEN <<>> ELSE << <<"on_exit", from>> >>) \o
    (IF target = "sitting" THEN <<>> ELSE << <<"on_enter", target>> >>)

HooksInvoked(hooks) == [i \in DOMAIN hooks |-> <<hooks[i][1], hooks[i][2]>>]

\* C30: a _switch_mode call with a registered key other than the current one
\* performs on_exit on the old mode, then the update of current_mode_key,
\* then on_enter on the new mode, then posts exactly one overlay, which
\* announces the switch; a call with the current key invokes no hook, posts
\* no overlay and changes no state.
C30_SwitchProtocol ==
    /\ [](/\ main_pc = "sw_exit" =>
                /\ current_mode_key = sw.from
                /\ sw.hooks = <<>>
                /\ Len(overlays) = sw.n_overlays
          /\ main_pc = "sw_enter" =>
                /\ current_mode_key = sw.target
                /\ HooksInvoked(sw.hooks) =
                      ExpectedHooks(sw.from, "sitting")
                /\ Len(overlays) = sw.n_overlays
          /\ (last_switch.target \in Keys
                 /\ last_switch.target # last_switch.from) =>
                /\ current_mode_key = last_switch.target
                /\ HooksInvoked(last_switch.hooks) =
                      ExpectedHooks(last_switch.from, last_switch.target)
                /\ Len(overlays) = last_switch.n_overlays + 1
                /\ overlays[Len(overlays)].text =
                      SwitchText(last_switch.target)
          /\ (last_switch.target # ""
                 /\ last_switch.target = last_switch.from) =>
                /\ last_switch.hooks = <<>>
                /\ current_mode_key = last_switch.from
                /\ Len(overlays) = last_switch.n_overlays)
    /\ [][(last_switch' # last_switch /\ last_switch'.target # ""
             /\ last_switch'.target = last_switch'.from) =>
              UNCHANGED <<current_mode_key, previous_mode_key, mode_instances,
                          factory_calls, returned, overlays, people_done,
                          before_people, sw, switches>>]_vars

\* A switch from guardian to reading has run both hooks without failure and
\* posted its overlay, and the controller is back in the loop.
C30_Witness ==
    /\ last_switch.hooks = << <<"on_exit", "guardian", "ok">>,
                              <<"on_enter", "reading", "ok">> >>
    /\ current_mode_key = "reading"
    /\ overlays[Len(overlays)].text = "Switched to Reading mode"
    /\ main_pc = "read"

\* C31: once the finally block of run() has ended, every mode instance the
\* registry holds, whichever thread constructed it and whenever, has been
\* given on_exit by the loop of the finally block.
C31_EveryInstanceExited ==
    main_pc = "done" => Constructed \subseteq cleanup.visited

\* C32: a caption request or a spoken-question request, whatever its
\* collaborators do, never raises out of its handler, leaves
\* current_mode_key, previous_mode_key and the registry unchanged, posts at
\* least one overlay, and the loop goes on to the next frame; when no
\* question is heard, answer_question is not called.
C32_OneShotIsolation ==
    /\ [](oneshot.kind # "" =>
            /\ ~oneshot.escaped
            /\ main_pc = "read"
            /\ Len(oneshot.posted) >= 1
            /\ oneshot.collab = "no_question" =>
                  "answer_question" \notin SeqRange(oneshot.calls))
    /\ [][oneshot'.n # oneshot.n =>
             /\ UNCHANGED <<current_mode_key, previous_mode_key,
                            mode_instances>>
             /\ Len(overlays') = Len(overlays) + Len(oneshot'.posted)
             /\ Len(overlays') > Len(overlays)]_vars

\* A spoken-question request whose answer_question raised has posted the
\* error overlay and the loop has gone on.
C32_Witness ==
    /\ oneshot.kind = "vqa"
    /\ oneshot.collab = "raises"
    /\ overlays[Len(overlays)].text = "Error processing question"
    /\ main_pc = "read"
    /\ current_mode_key = "people"
    /\ mode_instances["people"] # Absent

\* The frame counts up to n that are multiples of N.
EveryNth(N, n) == {c \in 1..n : c % N = 0}

C34_SilentWhileIdle ==
    (mut = "guardian" /\ guardian.frame_counter > 0
        /\ last_frame.mode = "guardian") =>
        /\ guardian.current_state = STATE_IDLE => last_frame.speech = <<>>
        /\ last_frame.speech # <<>> => guardian.current_state = STATE_ACTIVE

\* The steps of the worker from one position to the next.
PreForward ==
    {<<"sleep", "loop">>, <<"loop", "va">>, <<"get", "loop">>,
     <<"va", "done">>}

RECURSIVE Occurrences(_, _)
Occurrences(name, list) ==
    IF list = <<>> THEN 0
    ELSE (IF Head(list) = name THEN 1 ELSE 0) + Occurrences(name, Tail(list))

\* C36: in SceneMode and in FaceRecognitionService two announcements of the
\* same name are more than FACE_DEBOUNCE_SECONDS apart, a frame announces a
\* name at most once however often it is detected, "Unknown" is never
\* announced, and a name that is detected and has not been announced within
\* the debounce time is announced whatever other names the frame announces.
C36_PerNameDebounce ==
    mut \in {"scene", "service"} =>
        /\ \A n \in FaceNames :
              /\ face_speech.prev_ann[n] # Never =>
                    face_speech.last_ann[n] - face_speech.prev_ann[n]
                        > FACE_DEBOUNCE_SECONDS
              /\ Occurrences(n, face_speech.msgs) <= 1
              /\ face_speech.audio_enabled =>
                    (Occurrences(n, face_speech.msgs) = 1 <=>
                        (n \in face_speech.due
                           /\ Occurrences(n, face_speech.used) >= 1))
        /\ Occurrences("Unknown", face_speech.msgs) = 0
        /\ ~face_speech.audio_enabled => face_speech.msgs = <<>>

\* Alice, announced once before and due again, is announced in a frame that
\* also announces Bob for the first time, Bob being detected first.
C36_Witness ==
    /\ mut = "scene"
    /\ face_speech.used = <<"Bob", "Alice">>
    /\ face_speech.msgs = <<"Bob", "Alice">>
    /\ face_speech.prev_ann["Alice"] # Never
    /\ face_speech.prev_ann["Bob"] = Never
    /\ face_speech.last_ann["Alice"] = now

\* C37: whatever initial_mode the controller was built with, when the
\* auto-return is taken previous_mode_key is not "people", and the rest of
\* the iteration runs with a current mode other than "people".
C37_OneShotAlwaysLeft ==
    iter_log.auto =>
        /\ previous_mode_key # "people"
        /\ main_pc \in {"restored", "mode2"} => current_mode_key # "people"

\* C38: every instance whose process_frame the controller calls has been
\* given on_enter, and no on_exit since, whatever the hotkeys and however
\* the preloader is interleaved.
C38_ProcessedIsEntered ==
    iter_log.processed # "" => iter_log.entered

\* A step of the preloader thread.
PreStep ==
    /\ pre_pc # "off"
    /\ pre_pc' # pre_pc \/ pre_i' # pre_i \/ get'["pre"] # get["pre"]

WalkKeys == {"none", "t"}

\* The names of the messages a frame's speech and the key give to
\* _speak_messages, in order: the warning first.
WalkSpoken(speech, k) == Len(speech) + (IF k = "t" THEN 1 ELSE 0)

\* One iteration of the loop while the guardian mode is current:
\* process_frame, _speak_messages(speech), _active_overlays, then the key:
\* "t" adds the overlay "TTS Test" for 2 s and speaks the audio check.
LoopIteration(changed, depth, k) ==
    /\ mut = "guardian"
    /\ entered
    /\ guardian.frame_counter < MaxFrames
    /\ LET r == GuardianProcessFrame(guardian, now, changed, depth)
           n == WalkSpoken(r.speech, k)
           said == SpeakAll([q |-> queue, accepted |-> accepted,
                             last |-> last_speak], offered + 1, n)
           kept == ActiveOverlays(overlays, now).overlays
       IN  /\ offered + n <= MaxOffered
           /\ guardian' = r.g
           /\ warned' = IF r.speech # <<>> THEN warned \cup {offered + 1}
                        ELSE warned
           /\ queue' = said.q
           /\ accepted' = said.accepted
           /\ last_speak' = said.last
           /\ offered' = offered + n
           /\ overlays' = IF k = "t"
                          THEN PostAll(kept, <<Overlay("TTS Test", 4)>>)
                          ELSE kept
    /\ UNCHANGED <<now, worker_pc, playing, n_playing, played, pending,
                   shutdown_pc, pygame_initialized, mixer_open, added,
                   last_active, ctrlVars, mut, entered, reading, people,
                   last_frame, emit_times, ocr_hist, seen, session, near_run,
                   depth_runs, face_speech>>

InitWalk ==
    /\ now = T0
    /\ AudioInit
    /\ OverlayInit
    /\ ModeInit("guardian")
    /\ ControllerNew(NoArg)

\* The audio device is available and every synthesis succeeds.  The
\* iterations followed all read the same value of the clock.
NextWalk ==
    \/ GuardianOnEnter
    \/ \E changed \in BOOLEAN, depth \in DepthOutcomes, k \in WalkKeys :
          LoopIteration(changed, depth, k)
    \/ WorkerGet /\ UNCHANGED <<overlayVars, modeVars, ctrlVars>>
    \/ WorkerPlayEnd("ok") /\ UNCHANGED <<overlayVars, modeVars, ctrlVars>>

SpecWalk == InitWalk /\ [][NextWalk]_vars

\* The messages in a sequence.
Members(seq) == {seq[i] : i \in 1..Len(seq)}

\* C40: while the cooldown suppresses the re-emission of a warning, no
\* warning the GuardianMode has emitted was discarded at the speech queue:
\* each of them was accepted by the queue, from which the worker plays it.
C40_NoLostWarning ==
    now - guardian.last_warning_time <= warning_cooldown =>
        warned \subseteq Members(accepted)

=============================================================================
